---- MODULE Spec2Model ----
(***************************************************************************)
(* LawyerUp proactive case-monitoring agent: the upload, search and        *)
(* analysis pipelines of ML/proactive_agent/services and the HTTP          *)
(* handlers of ML/proactive_agent/app.py, as a state machine over the      *)
(* profile store, the vector index and the alert store; format_response    *)
(* of ML/CHATBOT/law/app.py as a function; and the document Q&A service of *)
(* ML/AI_DOC_ANALYSER/app.py as a state machine over its working           *)
(* directory (files).                                                      *)
(*                                                                         *)
(* Text is a sequence of one-character strings.  Similarity scores are     *)
(* integers in hundredths (0.7 is 70).  An embedding is a one-dimensional  *)
(* vector <<v>>; Python's None embedding is the empty sequence.            *)
(***************************************************************************)
EXTENDS Integers, Sequences, FiniteSets, TLC

VARIABLES profiles, index, alerts, next_uuid, procs, calc, files

vars == <<profiles, index, alerts, next_uuid, procs, calc, files>>

store == <<profiles, index, alerts, next_uuid>>

(***************************************************************************)
(* Bounds of the model.                                                    *)
(***************************************************************************)
MaxNerWords == 2

MaxPieces == 2

(***************************************************************************)
(* Generic sequence helpers.                                               *)
(***************************************************************************)
SeqsUpTo(S, n) == UNION {[1..k -> S] : k \in 0..n}

Take(s, n) == SubSeq(s, 1, IF Len(s) < n THEN Len(s) ELSE n)

RECURSIVE Concat(_)
Concat(ss) == IF ss = <<>> THEN <<>> ELSE Head(ss) \o Concat(Tail(ss))

RECURSIVE SumSeq(_)
SumSeq(s) == IF s = <<>> THEN 0 ELSE Head(s) + SumSeq(Tail(s))

Min(a, b) == IF a < b THEN a ELSE b

(***************************************************************************)
(* Python str methods on character sequences.                              *)
(***************************************************************************)
IsSpace(c) == c = " "

LowerChar(c) == IF c = "A" THEN "a"
                ELSE IF c = "B" THEN "b"
                ELSE IF c = "C" THEN "c"
                ELSE IF c = "D" THEN "d"
                ELSE c

Lower(s) == [i \in 1..Len(s) |-> LowerChar(s[i])]

RECURSIVE LStrip(_)
LStrip(s) == IF s # <<>> /\ IsSpace(Head(s)) THEN LStrip(Tail(s)) ELSE s

RECURSIVE RStrip(_)
RStrip(s) == IF s # <<>> /\ IsSpace(s[Len(s)])
             THEN RStrip(SubSeq(s, 1, Len(s) - 1))
             ELSE s

Strip(s) == RStrip(LStrip(s))

\* s.split(","): the pieces between commas, empty pieces kept.
RECURSIVE SplitComma(_)
SplitComma(s) ==
    IF \A i \in 1..Len(s) : s[i] # ","
    THEN <<s>>
    ELSE LET i == CHOOSE j \in 1..Len(s) :
                      s[j] = "," /\ \A k \in 1..(j - 1) : s[k] # ","
         IN <<SubSeq(s, 1, i - 1)>> \o SplitComma(SubSeq(s, i + 1, Len(s)))

\* ",".join(pieces), used to build the generative model's replies.
RECURSIVE JoinComma(_)
JoinComma(ps) == IF ps = <<>> THEN <<>>
                 ELSE IF Len(ps) = 1 THEN ps[1]
                 ELSE ps[1] \o <<",">> \o JoinComma(Tail(ps))

\* list(dict.fromkeys(xs)): exact duplicates dropped, first occurrence kept.
RECURSIVE DictFromKeys(_, _)
DictFromKeys(xs, acc) ==
    IF xs = <<>> THEN acc
    ELSE DictFromKeys(Tail(xs),
                      IF \E i \in 1..Len(acc) : acc[i] = Head(xs)
                      THEN acc ELSE Append(acc, Head(xs)))

RECURSIVE FilterLonger(_, _)
FilterLonger(xs, n) ==
    IF xs = <<>> THEN <<>>
    ELSE IF Len(Head(xs)) > n
         THEN <<Head(xs)>> \o FilterLonger(Tail(xs), n)
         ELSE FilterLonger(Tail(xs), n)

(***************************************************************************)
(* extraction_service.py and gemini_service.get_legal_concepts.            *)
(***************************************************************************)
MinEntityLen == 3

MinTermLen == 2

MaxConcepts == 15

MinTextLen == 100

MinTerms == 3

\* ner is the NER pipeline's outcome: [ok, words]; an exception yields [].
ExtractLegalEntities(ner) ==
    IF ~ner.ok THEN <<>>
    ELSE DictFromKeys(
             FilterLonger([i \in 1..Len(ner.words) |-> Strip(ner.words[i])],
                          MinEntityLen),
             <<>>)

\* gem is the generative model's outcome: [ok, text]; an exception yields [].
GetLegalConcepts(gem) ==
    IF ~gem.ok THEN <<>>
    ELSE LET pieces == SplitComma(Strip(gem.text))
             stripped == [i \in 1..Len(pieces) |-> Strip(pieces[i])]
         IN Take(FilterLonger(stripped, 0), MaxConcepts)

\* The loop of run_extraction_pipeline, STEP 4: seen is the set of keys.
RECURSIVE DedupTermsBug(_, _, _)
DedupTermsBug(all_terms, seen, final_terms) ==
    IF all_terms = <<>> THEN final_terms
    ELSE LET term == Head(all_terms)
             t == Strip(term)
         IN IF t \notin seen /\ Len(term) > MinTermLen
            THEN DedupTermsBug(Tail(all_terms), seen \cup {t},
                               Append(final_terms, term))
            ELSE DedupTermsBug(Tail(all_terms), seen, final_terms)

RECURSIVE DedupTerms(_, _, _)
DedupTerms(all_terms, seen, final_terms) ==
    IF all_terms = <<>> THEN final_terms
    ELSE LET term == Head(all_terms)
             t == Lower(Strip(term))
         IN IF t \notin seen /\ Len(term) > MinTermLen
            THEN DedupTerms(Tail(all_terms), seen \cup {t},
                            Append(final_terms, term))
            ELSE DedupTerms(Tail(all_terms), seen, final_terms)

\* run_extraction_pipeline: doc is [text_len, chunks, ner, gem].  The result
\* has raised = TRUE when the function raises ValueError (text too short).
RunExtractionPipeline(doc) ==
    IF doc.text_len < MinTextLen
    THEN [raised |-> TRUE, text_len |-> doc.text_len,
          extracted_search_terms |-> <<>>,
          entity_count |-> 0, concept_count |-> 0]
    ELSE LET ner_entities == ExtractLegalEntities(doc.ner)
             gemini_concepts == GetLegalConcepts(doc.gem)
         IN [raised |-> FALSE, text_len |-> doc.text_len,
             extracted_search_terms |->
                 DedupTerms(ner_entities \o gemini_concepts, {}, <<>>),
             entity_count |-> Len(ner_entities),
             concept_count |-> Len(gemini_concepts)]

ValidateExtractionResultsBug(res) ==
    IF res.text_len = 0 THEN "No text extracted from PDF"
    ELSE IF Len(res.extracted_search_terms) < MinTerms - 1
         THEN "Too few search terms extracted (minimum 3 required)"
         ELSE ""

\* validate_extraction_results: the error message, or "" when valid.
ValidateExtractionResults(res) ==
    IF res.text_len = 0 THEN "No text extracted from PDF"
    ELSE IF Len(res.extracted_search_terms) < MinTerms
         THEN "Too few search terms extracted (minimum 3 required)"
         ELSE ""

(***************************************************************************)
(* The stores: Firestore profiles and alerts, the Pinecone index.          *)
(***************************************************************************)
Users == {"test_user_local", "u2"}

Procs == {"p1", "p2"}

SeqProcs == {"p1"}

FileNames == {"case.pdf"}

\* What the embedding model encodes a briefing to.
Vecs == {0, 1, 2}

NoneEmb == <<>>

DefaultUploadLimit == 1

MaxChunks == 2

MaxUuid == 4

\* create_default_profile: the document written by set().
DefaultProfile ==
    [monitored_doc_name |-> "None",
     doc_upload_limit |-> DefaultUploadLimit,
     doc_upload_count |-> 0,
     extracted_search_terms |-> <<>>]

CreateDefaultProfile(ps, u) ==
    [x \in DOMAIN ps \cup {u} |-> IF x = u THEN DefaultProfile ELSE ps[x]]

\* update_profile_metadata: document(user_id).update(updates) merges the
\* given fields into the stored document.
UpdateProfileMetadata(ps, u, updates) ==
    [ps EXCEPT ![u] =
        [f \in DOMAIN ps[u] |->
            IF f \in DOMAIN updates THEN updates[f] ELSE ps[u][f]]]

\* chunk_document: the splitter's chunks are carried by the text.
ChunkDocument(text) == text.chunks

\* batch_get_embeddings.  A text is [blank, vec]: vec is what the model
\* encodes it to.  env is [batch_ok, item_fail]: whether the batch encode
\* succeeds and, on the one-by-one fallback, the indices whose encode raises.
\* non_empty_indices: the positions of the texts that are not blank.
RECURSIVE NonEmptyIndices(_, _)
NonEmptyIndices(texts, i) ==
    IF i > Len(texts) THEN <<>>
    ELSE IF texts[i].blank THEN NonEmptyIndices(texts, i + 1)
         ELSE <<i>> \o NonEmptyIndices(texts, i + 1)

\* local_model.encode(non_empty_texts).tolist(): one embedding per text.
EncodeBatch(non_empty_texts) ==
    [k \in 1..Len(non_empty_texts) |-> <<non_empty_texts[k].vec>>]

ReconstructPacked(n, non_empty_indices, embeddings_list) ==
    [i \in 1..n |->
        IF i <= Len(embeddings_list) THEN embeddings_list[i] ELSE NoneEmb]

\* result = [None] * len(texts), then result[i] = embedding for each pair
\* of zip(non_empty_indices, embeddings_list).
Reconstruct(n, non_empty_indices, embeddings_list) ==
    LET zipped == 1..Min(Len(non_empty_indices), Len(embeddings_list))
    IN [i \in 1..n |->
           IF \E k \in zipped : non_empty_indices[k] = i
           THEN embeddings_list[CHOOSE k \in zipped :
                                    non_empty_indices[k] = i]
           ELSE NoneEmb]

\* The fallback of batch_get_embeddings: get_embedding for one text after
\* the other, None for a blank text and for a text whose encode raises.
FallbackEmbeddings(texts, item_fail) ==
    [i \in 1..Len(texts) |->
        IF texts[i].blank \/ i \in item_fail
        THEN NoneEmb ELSE <<texts[i].vec>>]

BatchGetEmbeddings(texts, env) ==
    IF ~env.batch_ok THEN FallbackEmbeddings(texts, env.item_fail)
    ELSE IF texts = <<>> THEN <<>>
    ELSE LET non_empty_indices == NonEmptyIndices(texts, 1)
             non_empty_texts == [k \in 1..Len(non_empty_indices) |->
                                    texts[non_empty_indices[k]]]
         IN IF non_empty_texts = <<>>
            THEN [i \in 1..Len(texts) |-> NoneEmb]
            ELSE Reconstruct(Len(texts), non_empty_indices,
                             EncodeBatch(non_empty_texts))

\* valid_pairs of process_case_file_upload: indices with an embedding.
RECURSIVE ValidPairs(_, _, _)
ValidPairs(chunks, embeddings, i) ==
    IF i > Min(Len(chunks), Len(embeddings)) THEN <<>>
    ELSE IF embeddings[i] # NoneEmb
         THEN <<[chunk |-> chunks[i], embedding |-> embeddings[i]]>>
                  \o ValidPairs(chunks, embeddings, i + 1)
         ELSE ValidPairs(chunks, embeddings, i + 1)

UpsertBatchSize == 100

\* vectors_to_upsert of upsert_document_chunks: one vector per pair with an
\* embedding, its id made of user, document, a fresh uuid and the position.
RECURSIVE VectorsToUpsert(_, _, _, _, _)
VectorsToUpsert(u, doc_name, pairs, i, uuid) ==
    IF i > Len(pairs) THEN <<>>
    ELSE IF pairs[i].embedding = NoneEmb
         THEN VectorsToUpsert(u, doc_name, pairs, i + 1, uuid)
         ELSE <<[id |-> <<u, doc_name, uuid, i - 1>>,
                 values |-> pairs[i].embedding,
                 user_id |-> u,
                 source |-> doc_name,
                 chunk_index |-> i - 1]>>
                  \o VectorsToUpsert(u, doc_name, pairs, i + 1, uuid + 1)

\* index.upsert(vectors): a vector replaces the stored one of the same id.
IndexUpsert(idx, batch) ==
    {v \in idx : \A k \in 1..Len(batch) : batch[k].id # v.id}
        \cup {batch[k] : k \in 1..Len(batch)}

NumBatches(n) == (n + UpsertBatchSize - 1) \div UpsertBatchSize

\* upsert_document_chunks: batches 1..(fail_at - 1) are written; fail_at = 0
\* means that no batch raises.  Returns the index, the count and raised.
UpsertDocumentChunks(idx, u, doc_name, pairs, uuid, fail_at) ==
    LET vectors == VectorsToUpsert(u, doc_name, pairs, 1, uuid)
        n == Len(vectors)
        done == IF fail_at = 0 THEN n
                ELSE Min(n, (fail_at - 1) * UpsertBatchSize)
    IN [index |-> IndexUpsert(idx, SubSeq(vectors, 1, done)),
        total_upserted |-> done,
        raised |-> fail_at # 0,
        built |-> n]

(***************************************************************************)
(* Requests.  Each request is a process with a program counter; a step is  *)
(* one call to an external service with the local code around it.          *)
(***************************************************************************)
IdleProc ==
    [pc |-> "idle", op |-> "none", via |-> "direct", cred |-> "none",
     user_id |-> "none", status |-> 0, extraction_done |-> FALSE, filename |-> "", upload_count |-> 0,
     terms |-> <<>>, chunks |-> <<>>, embeddings |-> <<>>, pairs |-> <<>>,
     articles |-> <<>>, briefings |-> <<>>, i |-> 0, alerts_created |-> <<>>,
     log |-> <<>>, last |-> <<>>, max_results |-> 0, profile |-> <<>>,
     pinecone_matches |-> <<>>, impact_analysis |-> <<>>,
     pre |-> [profiles |-> <<>>, index |-> {}, alerts |-> <<>>],
     result |-> [success |-> FALSE, error |-> ""]]

\* firebase_service.verify_token: the body is a single return statement.
VerifyToken(cred) == [raised |-> FALSE, uid |-> "test_user_local"]

Credentials == {"absent", "invalid", "valid"}

\* The status code the handlers of app.py give a finished pipeline result.
HttpStatus(op, result) ==
    IF result.success THEN 200
    ELSE IF op = "search"
              /\ result.error
                   = "No case file uploaded. Please upload a case file first."
         THEN 400
         ELSE 500

\* A pipeline function returns res: the handler of app.py answers in the
\* same step.
Finished(pr, res) ==
    [pr EXCEPT !.pc = "done", !.result = res,
               !.status = IF pr.via = "http"
                          THEN HttpStatus(pr.op, res) ELSE 0]

Return(p, res) == procs' = [procs EXCEPT ![p] = Finished(@, res)]

Snapshot == [profiles |-> profiles, index |-> index, alerts |-> alerts]

UploadResult0(filename) ==
    [success |-> FALSE, doc_name |-> filename, extracted_terms_count |-> 0,
     chunks_indexed |-> 0, extracted_terms |-> <<>>, error |-> ""]

\* process_case_file_upload called by a caller of the services package.
UploadBegin(p, u, filename) ==
    /\ procs[p].pc \in {"idle", "done"}
    /\ next_uuid + MaxChunks <= MaxUuid + 1
    /\ procs' = [procs EXCEPT ![p] =
                    [IdleProc EXCEPT !.pc = "get_profile", !.op = "upload",
                                     !.user_id = u, !.filename = filename,
                                     !.pre = Snapshot,
                                     !.result = UploadResult0(filename)]]
    /\ UNCHANGED <<store, calc, files>>

FileRequests == {"absent", "empty_name", "not_pdf", "too_large", "ok"}

FileError(file) ==
    IF file = "absent" THEN "No file provided in request"
    ELSE IF file = "empty_name" THEN "Empty filename"
    ELSE IF file = "not_pdf" THEN "Only PDF files are supported"
    ELSE IF file = "too_large" THEN "PDF file too large (maximum 10MB)"
    ELSE ""

\* app.upload_case_file up to the call of process_case_file_upload.
HttpUploadCaseFile(p, cred, file, filename) ==
    /\ procs[p].pc \in {"idle", "done"}
    /\ next_uuid + MaxChunks <= MaxUuid + 1
    /\ LET auth == VerifyToken(cred)
           base == [IdleProc EXCEPT !.op = "upload", !.via = "http",
                                    !.cred = cred, !.pre = Snapshot]
       IN procs' = [procs EXCEPT ![p] =
            IF auth.raised
            THEN [base EXCEPT !.pc = "done", !.status = 401,
                              !.result = [success |-> FALSE,
                                          error |-> "auth"]]
            ELSE IF FileError(file) # ""
            THEN [base EXCEPT !.pc = "done", !.status = 400,
                              !.user_id = auth.uid,
                              !.result = [success |-> FALSE,
                                          error |-> FileError(file)]]
            ELSE [base EXCEPT !.pc = "get_profile", !.user_id = auth.uid,
                              !.filename = filename,
                              !.result = UploadResult0(filename)]]
    /\ UNCHANGED <<store, calc, files>>

\* str(e) of the exception a failing Firestore call raises.
FirestoreGetFailed == "Firestore get failed"

FirestoreSetFailed == "Firestore set failed"

\* get_profile_from_firestore re-raises; the pipeline functions catch the
\* exception and return their result with error = str(e), and
\* get_pipeline_status returns None.
ProfileRaised(pr, error) ==
    Finished(pr, IF pr.op = "status" THEN [is_none |-> TRUE]
                 ELSE [pr.result EXCEPT !.error = error])

\* get_profile_from_firestore with a first get() that finds no document
\* whatever is stored.
GetProfileAlwaysCreate(p) ==
    /\ procs[p].pc = "get_profile"
    /\ \E ok \in BOOLEAN :
         procs' = [procs EXCEPT ![p] =
             IF ~ok THEN ProfileRaised(@, FirestoreGetFailed)
             ELSE [@ EXCEPT !.pc = "create_profile"]]
    /\ UNCHANGED <<store, calc, files>>

\* get_profile_from_firestore: the first profile_ref.get() and the test of
\* exists; the document of an existing profile is what the function returns.
GetProfile(p) ==
    /\ procs[p].pc = "get_profile"
    /\ \E ok \in BOOLEAN :
         procs' = [procs EXCEPT ![p] =
             IF ~ok THEN ProfileRaised(@, FirestoreGetFailed)
             ELSE IF procs[p].user_id \in DOMAIN profiles
             THEN [@ EXCEPT !.pc = "read_profile",
                            !.profile = profiles[procs[p].user_id]]
             ELSE [@ EXCEPT !.pc = "create_profile"]]
    /\ UNCHANGED <<store, calc, files>>

\* get_profile_from_firestore, create_default_profile for a missing profile:
\* document(user_id).set(default_profile).
CreateProfile(p) ==
    /\ procs[p].pc = "create_profile"
    /\ \E ok \in BOOLEAN :
         IF ok
         THEN /\ profiles' = CreateDefaultProfile(profiles, procs[p].user_id)
              /\ procs' = [procs EXCEPT ![p].pc = "get_created_profile"]
         ELSE /\ procs' = [procs EXCEPT ![p] =
                              ProfileRaised(@, FirestoreSetFailed)]
              /\ UNCHANGED profiles
    /\ UNCHANGED <<index, alerts, next_uuid, calc, files>>

\* get_profile_from_firestore, the second profile_ref.get(), which fetches
\* the profile after create_default_profile.
GetCreatedProfile(p) ==
    /\ procs[p].pc = "get_created_profile"
    /\ \E ok \in BOOLEAN :
         procs' = [procs EXCEPT ![p] =
             IF ~ok THEN ProfileRaised(@, FirestoreGetFailed)
             ELSE [@ EXCEPT !.pc = "read_profile",
                            !.profile = profiles[procs[p].user_id]]]
    /\ UNCHANGED <<store, calc, files>>

UploadLimitReachedBug(upload_count, upload_limit) == upload_count > upload_limit

UploadLimitReached(upload_count, upload_limit) == upload_count >= upload_limit

\* process_case_file_upload STEP 1: the limit check on the profile that
\* get_profile_from_firestore returned.
\* The error is the message without the "(count/limit)" it ends with.
UploadCheckLimit(p) ==
    /\ procs[p].pc = "read_profile"
    /\ procs[p].op = "upload"
    /\ LET profile == procs[p].profile
           upload_limit == profile.doc_upload_limit
           upload_count == profile.doc_upload_count
       IN IF UploadLimitReached(upload_count, upload_limit)
          THEN Return(p, [procs[p].result EXCEPT
                             !.error = "Upload limit reached"])
          ELSE procs' = [procs EXCEPT ![p].pc = "extract",
                                      ![p].upload_count = upload_count]
    /\ UNCHANGED <<store, calc, files>>

(***************************************************************************)
(* Inputs of the upload pipeline: what the PDF, the NER model, the         *)
(* generative model and the embedding model give.                          *)
(***************************************************************************)
Abcd == <<"a", "b", "c", "d">>

AbcdUpper == <<"A", "B", "C", "D">>

Wxyz == <<"w", "x", "y", "z">>

Abc == <<"a", "b", "c">>

TextLens == {MinTextLen - 1, MinTextLen}

ExtractionCases ==
    {[ner |-> [ok |-> TRUE, words |-> <<Abcd, Wxyz>>],
      gem |-> [ok |-> TRUE, text |-> JoinComma(<<Abc, AbcdUpper>>)]],
     [ner |-> [ok |-> TRUE, words |-> <<Abcd>>],
      gem |-> [ok |-> TRUE, text |-> JoinComma(<<AbcdUpper, Abc>>)]],
     [ner |-> [ok |-> FALSE, words |-> <<>>],
      gem |-> [ok |-> TRUE, text |-> JoinComma(<<Abc, Abcd>>)]]}

ChunkTexts ==
    {[blank |-> FALSE, vec |-> 0],
     [blank |-> TRUE, vec |-> 0]}

EmbedEnvs(n) ==
    {[batch_ok |-> TRUE, item_fail |-> {}]}
        \cup {[batch_ok |-> FALSE, item_fail |-> S] : S \in SUBSET (1..n)}

\* process_case_file_upload STEP 2: run_extraction_pipeline and
\* validate_extraction_results.
UploadExtract(p) ==
    /\ procs[p].pc = "extract"
    /\ \E text_len \in TextLens, ex \in ExtractionCases :
         LET extraction_result ==
                 RunExtractionPipeline([text_len |-> text_len,
                                        ner |-> ex.ner, gem |-> ex.gem])
             error_msg == ValidateExtractionResults(extraction_result)
             extracted_terms == extraction_result.extracted_search_terms
         IN IF extraction_result.raised
            THEN Return(p, [procs[p].result EXCEPT !.error =
                     "PDF text extraction failed or document too short"])
            ELSE IF error_msg # ""
            THEN procs' = [procs EXCEPT ![p] =
                     Finished([procs[p] EXCEPT !.extraction_done = TRUE,
                                               !.terms = extracted_terms],
                              [procs[p].result EXCEPT !.error = error_msg])]
            ELSE procs' = [procs EXCEPT
                     ![p].pc = "save_terms",
                     ![p].extraction_done = TRUE,
                     ![p].terms = extracted_terms,
                     ![p].result =
                         [@ EXCEPT !.extracted_terms = extracted_terms,
                                   !.extracted_terms_count =
                                       Len(extracted_terms)]]
    /\ UNCHANGED <<store, calc, files>>

\* process_case_file_upload STEP 3: save the terms and the document name.
UploadSaveTerms(p) ==
    /\ procs[p].pc = "save_terms"
    /\ \E ok \in BOOLEAN :
         IF ok /\ procs[p].user_id \in DOMAIN profiles
         THEN /\ profiles' = UpdateProfileMetadata(profiles, procs[p].user_id,
                     [monitored_doc_name |-> procs[p].filename,
                      extracted_search_terms |-> procs[p].terms])
              /\ procs' = [procs EXCEPT ![p].pc = "embed"]
         ELSE /\ Return(p, [procs[p].result EXCEPT
                               !.error = "Firestore update failed"])
              /\ UNCHANGED profiles
    /\ UNCHANGED <<index, alerts, next_uuid, calc, files>>

\* process_case_file_upload STEPS 4 and 5: chunk the text, embed the chunks,
\* keep the pairs that have an embedding.
UploadEmbed(p) ==
    /\ procs[p].pc = "embed"
    /\ \E cs \in SeqsUpTo(ChunkTexts, MaxChunks) :
         \E env \in EmbedEnvs(Len(cs)) :
           LET chunks == ChunkDocument([chunks |-> cs])
               embeddings == BatchGetEmbeddings(chunks, env)
               valid_pairs == ValidPairs(chunks, embeddings, 1)
               pr == [procs[p] EXCEPT !.chunks = chunks,
                                      !.embeddings = embeddings,
                                      !.pairs = valid_pairs]
           IN IF valid_pairs = <<>>
              THEN procs' = [procs EXCEPT ![p] =
                       Finished(pr, [pr.result EXCEPT !.error =
                  "Failed to generate embeddings for document chunks"])]
              ELSE procs' = [procs EXCEPT ![p] =
                       [pr EXCEPT !.pc = "upsert"]]
    /\ UNCHANGED <<store, calc, files>>

\* process_case_file_upload STEP 6: upsert_document_chunks.
UploadUpsert(p) ==
    /\ procs[p].pc = "upsert"
    /\ \E fail_at \in 0..NumBatches(Len(procs[p].pairs)) :
         LET up == UpsertDocumentChunks(index, procs[p].user_id,
                       procs[p].filename, procs[p].pairs, next_uuid, fail_at)
         IN /\ index' = up.index
            /\ next_uuid' = next_uuid + up.built
            /\ IF up.raised
               THEN Return(p, [procs[p].result EXCEPT
                                  !.error = "Pinecone upsert failed"])
               ELSE procs' = [procs EXCEPT
                        ![p].pc = "update_count",
                        ![p].result =
                            [@ EXCEPT !.chunks_indexed = up.total_upserted]]
    /\ UNCHANGED <<profiles, alerts, calc, files>>

\* process_case_file_upload STEP 7 with success set whatever the write did.
UploadUpdateCountUnchecked(p) ==
    /\ procs[p].pc = "update_count"
    /\ \E ok \in BOOLEAN :
         /\ profiles' = IF ok /\ procs[p].user_id \in DOMAIN profiles
                        THEN UpdateProfileMetadata(profiles, procs[p].user_id,
                                 [doc_upload_count |-> procs[p].upload_count + 1])
                        ELSE profiles
         /\ Return(p, [procs[p].result EXCEPT !.success = TRUE])
    /\ UNCHANGED <<index, alerts, next_uuid, calc, files>>

\* process_case_file_upload STEP 7: write the upload count, return success.
UploadUpdateCount(p) ==
    /\ procs[p].pc = "update_count"
    /\ \E ok \in BOOLEAN :
         IF ok /\ procs[p].user_id \in DOMAIN profiles
         THEN /\ profiles' = UpdateProfileMetadata(profiles, procs[p].user_id,
                     [doc_upload_count |-> procs[p].upload_count + 1])
              /\ Return(p, [procs[p].result EXCEPT !.success = TRUE])
         ELSE /\ Return(p, [procs[p].result EXCEPT
                               !.error = "Firestore update failed"])
              /\ UNCHANGED profiles
    /\ UNCHANGED <<index, alerts, next_uuid, calc, files>>

(***************************************************************************)
(* pinecone_service.query_pinecone and the index's query.                  *)
(***************************************************************************)
TopK == 3

ScoreThreshold == 70

HighCutoff == 80

MinImpactLen == 50

MaxArticles == 2

\* The index's similarity of two stored unit vectors, in hundredths: it
\* falls by a tenth with each unit of distance, down to 0.6.
CosineScore(q, v) ==
    LET d == IF q[1] >= v[1] THEN q[1] - v[1] ELSE v[1] - q[1]
    IN IF d >= 4 THEN 60 ELSE 100 - 10 * d

MatchesFilter(v, filter) == \A f \in DOMAIN filter : v[f] = filter[f]

\* The k best of S, best first; equal scores in the order of their uuid.
RECURSIVE BestFirst(_, _, _)
BestFirst(S, q, k) ==
    IF k = 0 \/ S = {} THEN <<>>
    ELSE LET best == CHOOSE v \in S : \A w \in S :
                 \/ CosineScore(q, v.values) > CosineScore(q, w.values)
                 \/ /\ CosineScore(q, v.values) = CosineScore(q, w.values)
                    /\ v.id[3] <= w.id[3]
         IN <<[id |-> best.id, score |-> CosineScore(q, best.values),
               metadata |-> [user_id |-> best.user_id,
                             source |-> best.source,
                             chunk_index |-> best.chunk_index]]>>
                \o BestFirst(S \ {best}, q, k - 1)

\* index.query(vector, filter, top_k, include_metadata=True).
IndexQuery(idx, vector, filter, top_k) ==
    BestFirst({v \in idx : MatchesFilter(v, filter)}, vector, top_k)

KeepAll(results, score_threshold) ==
    [k \in 1..Len(results) |->
        [document_id |-> results[k].id,
         score |-> results[k].score,
         source |-> results[k].metadata.source]]

RECURSIVE KeepAtLeast(_, _)
KeepAtLeast(results, score_threshold) ==
    IF results = <<>> THEN <<>>
    ELSE IF Head(results).score >= score_threshold
         THEN <<[document_id |-> Head(results).id,
                 score |-> Head(results).score,
                 source |-> Head(results).metadata.source]>>
                  \o KeepAtLeast(Tail(results), score_threshold)
         ELSE KeepAtLeast(Tail(results), score_threshold)

QueryPineconeNoFilter(idx, user_id, query_vector, top_k, score_threshold, ok) ==
    IF ~ok THEN <<>>
    ELSE KeepAtLeast(IndexQuery(idx, query_vector, <<>>, top_k),
                     score_threshold)

\* query_pinecone: ok = FALSE is a query that raises, which yields [].
QueryPinecone(idx, user_id, query_vector, top_k, score_threshold, ok) ==
    IF ~ok THEN <<>>
    ELSE KeepAtLeast(IndexQuery(idx, query_vector,
                                [user_id |-> user_id], top_k),
                     score_threshold)

(***************************************************************************)
(* gemini_service: summaries and the impact judgment.  A reply of the      *)
(* generative model is [ok, marker, len]: whether the call returns, which  *)
(* spelling of the sentinel the text holds ("" for none), and its length.  *)
(***************************************************************************)
UpperMarker(m) == IF m = "no_impact" \/ m = "No_Impact" THEN "NO_IMPACT" ELSE m

ContainsNoImpact(reply) == UpperMarker(reply.marker) = "NO_IMPACT"

ImpactReplies ==
    {[ok |-> FALSE, marker |-> "", len |-> 0],
     [ok |-> TRUE, marker |-> "NO_IMPACT", len |-> 9],
     [ok |-> TRUE, marker |-> "no_impact", len |-> MinImpactLen + 10],
     [ok |-> TRUE, marker |-> "", len |-> MinImpactLen - 1],
     [ok |-> TRUE, marker |-> "", len |-> MinImpactLen]}

NoneText == [is_none |-> TRUE, marker |-> "", len |-> 0]

GenerateActionableAlertBug(reply) ==
    IF ~reply.ok THEN NoneText
    ELSE IF reply.len < MinImpactLen THEN NoneText
    ELSE [is_none |-> FALSE, marker |-> reply.marker, len |-> reply.len]

\* generate_actionable_alert: None, or the impact text.
GenerateActionableAlert(reply) ==
    IF ~reply.ok THEN NoneText
    ELSE IF ContainsNoImpact(reply) \/ reply.len < MinImpactLen THEN NoneText
    ELSE [is_none |-> FALSE, marker |-> reply.marker, len |-> reply.len]

\* summarize_articles: one briefing per article whose summary call returns;
\* no is the article's position in the request.
RECURSIVE SummarizeArticles(_, _, _)
SummarizeArticles(articles, fails, no) ==
    IF no > Len(articles) THEN <<>>
    ELSE IF no \in fails
         THEN SummarizeArticles(articles, fails, no + 1)
         ELSE <<[title |-> articles[no].title,
                 link |-> articles[no].link,
                 original_snippet |-> articles[no].snippet,
                 summary |-> "summary",
                 no |-> no]>>
                  \o SummarizeArticles(articles, fails, no + 1)

Scores(matches) == [k \in 1..Len(matches) |-> matches[k].score]

\* The lists of scores among 0.7, 0.8, 0.9 and 1.0, of up to four entries,
\* for which sum(...) / len(...) in double arithmetic is not the exact
\* average: each gives 0.8000000000000002 where the average is 0.8.
RoundedAboveCutoff ==
    {<<80, 80, 80>>, <<90, 80, 70>>, <<90, 70, 80>>, <<80, 90, 70>>,
     <<70, 90, 80>>}

\* avg_score > 0.8 with avg_score = sum(m['score'] ...) / len(...), as the
\* doubles compute it for scores that are tenths from 0.7 to 1.0.
AvgScoreAboveCutoff(scores) ==
    \/ SumSeq(scores) > HighCutoff * Len(scores)
    \/ scores \in RoundedAboveCutoff

\* The scores of the related documents of the alerts saved so far.
RECURSIVE SavedScores(_)
SavedScores(as) ==
    IF as = <<>> THEN <<>>
    ELSE [k \in 1..Len(Head(as).related_documents) |->
             Head(as).related_documents[k].relevance_score]
            \o SavedScores(Tail(as))

\* A priority whose average runs over the scores of the alerts saved so far
\* as well as the article's own matches.
PriorityRunningAverage(matches) ==
    LET scores == SavedScores(alerts) \o Scores(matches)
    IN IF Len(matches) > 1 /\ SumSeq(scores) > HighCutoff * Len(scores)
       THEN "high" ELSE "medium"

\* priority of run_article_analysis_pipeline.
Priority(matches) ==
    IF Len(matches) > 1 /\ AvgScoreAboveCutoff(Scores(matches))
    THEN "high" ELSE "medium"

RelatedDocuments(matches) ==
    [k \in 1..Len(matches) |->
        [document_id |-> matches[k].document_id,
         relevance_score |-> matches[k].score,
         source |-> matches[k].source]]

\* A save that returns an id without storing the document.
SaveAlertToFirestoreLost(as, user_id, alert_data) == as

\* save_alert_to_firestore: the stored document; its id is its position.
SaveAlertToFirestore(as, user_id, alert_data) ==
    Append(as, [title |-> alert_data.title,
                article_link |-> alert_data.article_link,
                summary |-> alert_data.summary,
                impact_analysis |-> alert_data.impact_analysis,
                related_documents |-> alert_data.related_documents,
                priority |-> alert_data.priority,
                user_id |-> user_id,
                status |-> "unread"])

(***************************************************************************)
(* run_article_analysis_pipeline.                                          *)
(***************************************************************************)
\* The articles a request submits: the first n of these.
ArticlePool ==
    <<[title |-> "t1", link |-> "l1", snippet |-> "s1"],
      [title |-> "t2", link |-> "l2", snippet |-> "s2"],
      [title |-> "t3", link |-> "l3", snippet |-> "s3"],
      [title |-> "t4", link |-> "l4", snippet |-> "s4"]>>

ArticleLists == {Take(ArticlePool, n) : n \in 0..MaxArticles}

\* What is kept of the latest iteration of the loop over the briefings:
\* the article, how far it got, the matches of the query and the alert
\* saved.
PendingEntry ==
    [no |-> 0, stage |-> "pending", matches |-> <<>>, alert_id |-> 0]

AnalyzeResult0 ==
    [success |-> FALSE, articles_analyzed |-> 0, alerts_created |-> 0,
     alerts |-> <<>>, error |-> ""]

\* run_article_analysis_pipeline called by a caller of the services package.
AnalyzeBegin(p, u, articles) ==
    /\ procs[p].pc = "idle"
    /\ procs' = [procs EXCEPT ![p] =
                    [IdleProc EXCEPT !.pc = "summarize", !.op = "analyze",
                                     !.user_id = u, !.articles = articles,
                                     !.log = [k \in 1..Len(articles) |->
                                                 "pending"],
                                     !.last = PendingEntry,
                                     !.result = AnalyzeResult0]]
    /\ UNCHANGED <<store, calc, files>>

MaxArticlesPerRequest == 20

\* An element of the articles list that is not a JSON object.
NotADict == [not_a_dict |-> TRUE]

RequiredFields == <<"title", "link", "snippet">>

\* f"Article {i} is not a valid dictionary", by the position i + 1.
NotADictMessages ==
    <<"Article 0 is not a valid dictionary",
      "Article 1 is not a valid dictionary",
      "Article 2 is not a valid dictionary",
      "Article 3 is not a valid dictionary">>

\* f"Article {i} missing required field: {field}", by field and position.
MissingFieldMessages ==
    [title |-> <<"Article 0 missing required field: title",
                 "Article 1 missing required field: title",
                 "Article 2 missing required field: title",
                 "Article 3 missing required field: title">>,
     link |-> <<"Article 0 missing required field: link",
                "Article 1 missing required field: link",
                "Article 2 missing required field: link",
                "Article 3 missing required field: link">>,
     snippet |-> <<"Article 0 missing required field: snippet",
                   "Article 1 missing required field: snippet",
                   "Article 2 missing required field: snippet",
                   "Article 3 missing required field: snippet">>]

\* f"Article {i} has invalid {field}", by field and position.
InvalidFieldMessages ==
    [title |-> <<"Article 0 has invalid title",
                 "Article 1 has invalid title",
                 "Article 2 has invalid title",
                 "Article 3 has invalid title">>,
     link |-> <<"Article 0 has invalid link",
                "Article 1 has invalid link",
                "Article 2 has invalid link",
                "Article 3 has invalid link">>,
     snippet |-> <<"Article 0 has invalid snippet",
                   "Article 1 has invalid snippet",
                   "Article 2 has invalid snippet",
                   "Article 3 has invalid snippet">>]

\* The loop over required_fields for one article, from field number f.
RECURSIVE ArticleFieldError(_, _, _)
ArticleFieldError(article, i, f) ==
    IF f > Len(RequiredFields) THEN ""
    ELSE LET field == RequiredFields[f]
         IN IF field \notin DOMAIN article
            THEN MissingFieldMessages[field][i]
            ELSE IF article[field] = ""
            THEN InvalidFieldMessages[field][i]
            ELSE ArticleFieldError(article, i, f + 1)

\* The loop over the articles, from position i (1 is Python's index 0).
RECURSIVE ArticlesError(_, _)
ArticlesError(articles, i) ==
    IF i > Len(articles) THEN ""
    ELSE IF "not_a_dict" \in DOMAIN articles[i] THEN NotADictMessages[i]
    ELSE LET error_msg == ArticleFieldError(articles[i], i, 1)
         IN IF error_msg # "" THEN error_msg
            ELSE ArticlesError(articles, i + 1)

\* validate_article_analysis_inputs: the error message, "" for valid inputs.
\* user_id is a string, articles a list, and a field that is present holds
\* a string.
ValidateArticleAnalysisInputs(user_id, articles) ==
    IF user_id = "" THEN "Invalid user_id"
    ELSE IF articles = <<>> THEN "Articles must be a non-empty list"
    ELSE IF Len(articles) > MaxArticlesPerRequest
         THEN "Too many articles (maximum 20 per request)"
         ELSE ArticlesError(articles, 1)

\* Articles that the validation refuses.
BadArticles ==
    {NotADict,
     [title |-> "t1", link |-> "l1"],
     [title |-> "", link |-> "l1", snippet |-> "s1"],
     [title |-> "t1", link |-> "", snippet |-> "s1"],
     [title |-> "t1", link |-> "l1", snippet |-> ""]}

\* The lists of an HTTP request: the valid ones, and valid articles followed
\* by one that is refused.
HttpArticleLists ==
    ArticleLists
        \cup {Take(ArticlePool, n) \o <<bad>> :
                 n \in 0..(MaxArticles - 1), bad \in BadArticles}

\* app.analyze_articles up to the call of run_article_analysis_pipeline.
HttpAnalyzeArticles(p, cred, articles) ==
    /\ procs[p].pc = "idle"
    /\ LET auth == VerifyToken(cred)
           base == [IdleProc EXCEPT !.op = "analyze", !.via = "http",
                                    !.cred = cred]
           error_msg == ValidateArticleAnalysisInputs(auth.uid, articles)
       IN procs' = [procs EXCEPT ![p] =
            IF auth.raised
            THEN [base EXCEPT !.pc = "done", !.status = 401,
                              !.result = [success |-> FALSE,
                                          error |-> "auth"]]
            ELSE IF error_msg # ""
            THEN [base EXCEPT !.pc = "done", !.status = 400,
                              !.user_id = auth.uid,
                              !.result = [success |-> FALSE,
                                          error |-> error_msg]]
            ELSE [base EXCEPT !.pc = "summarize", !.user_id = auth.uid,
                              !.articles = articles,
                              !.log = [k \in 1..Len(articles) |->
                                          "pending"],
                              !.last = PendingEntry,
                              !.result = AnalyzeResult0]]
    /\ UNCHANGED <<store, calc, files>>

\* STEP 1: summarize_articles; an article whose summary raises is skipped.
AnalyzeSummarize(p) ==
    /\ procs[p].pc = "summarize"
    /\ \E fails \in SUBSET (1..Len(procs[p].articles)) :
         LET briefings == SummarizeArticles(procs[p].articles, fails, 1)
             pr == [procs[p] EXCEPT
                       !.briefings = briefings,
                       !.log = [k \in 1..Len(procs[p].articles) |->
                                   IF k \in fails
                                   THEN "summarize_failed" ELSE "pending"],
                       !.result = [@ EXCEPT !.articles_analyzed =
                                                Len(briefings)]]
         IN IF briefings = <<>>
            THEN procs' = [procs EXCEPT ![p] =
                     Finished(pr, [pr.result EXCEPT !.success = TRUE])]
            ELSE procs' = [procs EXCEPT ![p] =
                     [pr EXCEPT !.pc = "briefing", !.i = 1]]
    /\ UNCHANGED <<store, calc, files>>

\* "continue" of the loop over the briefings, with what is kept of the
\* iteration for the article.
Logged(pr, entry) ==
    [pr EXCEPT !.log = [@ EXCEPT ![pr.briefings[pr.i].no] = entry.stage],
               !.last = [entry EXCEPT !.no = pr.briefings[pr.i].no]]

\* The loop moves on to the next briefing; pinecone_matches and
\* impact_analysis are assigned anew before they are read again.
NextBriefing(pr, entry) ==
    [Logged(pr, entry) EXCEPT !.pc = "briefing", !.i = @ + 1,
                              !.pinecone_matches = <<>>,
                              !.impact_analysis = <<>>]

BriefingRaisedAbort(pr, entry) ==
    Finished(Logged(pr, entry), [pr.result EXCEPT !.error = "exception"])

\* "except Exception: continue" around one briefing.
BriefingRaised(pr, entry) == NextBriefing(pr, entry)

EmbedOutcomes == {[ok |-> FALSE, vec |-> 0]}
                     \cup {[ok |-> TRUE, vec |-> v] : v \in Vecs}

\* STEPS 2 and 3 for one briefing: get_embedding with the local model and
\* query_pinecone, whose matches the iteration keeps.
AnalyzeBriefing(p) ==
    /\ procs[p].pc = "briefing"
    /\ procs[p].i <= Len(procs[p].briefings)
    /\ \E emb \in EmbedOutcomes :
         IF ~emb.ok
         THEN procs' = [procs EXCEPT ![p] = BriefingRaised(procs[p],
                  [PendingEntry EXCEPT !.stage = "embed_failed"])]
         ELSE \E query_ok \in BOOLEAN :
                LET pinecone_matches ==
                        QueryPinecone(index, procs[p].user_id, <<emb.vec>>,
                                      TopK, ScoreThreshold, query_ok)
                IN IF pinecone_matches = <<>>
                   THEN procs' = [procs EXCEPT ![p] =
                            NextBriefing(procs[p],
                                [PendingEntry EXCEPT !.stage = "no_matches"])]
                   ELSE procs' = [procs EXCEPT
                            ![p].pc = "judge",
                            ![p].pinecone_matches = pinecone_matches]
    /\ UNCHANGED <<store, calc, files>>

\* STEP 4 for one briefing: generate_actionable_alert, a call of the
\* generative model.
JudgeBriefing(p) ==
    /\ procs[p].pc = "judge"
    /\ \E reply \in ImpactReplies :
         LET impact_analysis == GenerateActionableAlert(reply)
         IN IF impact_analysis.is_none
            THEN procs' = [procs EXCEPT ![p] = NextBriefing(procs[p],
                     [PendingEntry EXCEPT
                         !.stage = "no_impact",
                         !.matches = procs[p].pinecone_matches])]
            ELSE procs' = [procs EXCEPT
                     ![p].pc = "save",
                     ![p].impact_analysis = impact_analysis]
    /\ UNCHANGED <<store, calc, files>>

\* STEP 5 for one briefing: the alert data and save_alert_to_firestore.
SaveBriefingAlert(p) ==
    /\ procs[p].pc = "save"
    /\ \E save_ok \in BOOLEAN :
         LET pr == procs[p]
             briefing == pr.briefings[pr.i]
             pinecone_matches == pr.pinecone_matches
             priority == Priority(pinecone_matches)
             alert_data ==
                 [title |-> briefing.title,
                  article_link |-> briefing.link,
                  summary |-> briefing.summary,
                  impact_analysis |-> pr.impact_analysis,
                  related_documents |-> RelatedDocuments(pinecone_matches),
                  priority |-> priority]
             alert_id == Len(alerts) + 1
         IN IF ~save_ok
            THEN /\ procs' = [procs EXCEPT ![p] = BriefingRaised(pr,
                         [PendingEntry EXCEPT !.stage = "save_failed",
                                              !.matches = pinecone_matches])]
                 /\ UNCHANGED alerts
            ELSE /\ alerts' = SaveAlertToFirestore(alerts, pr.user_id,
                                                   alert_data)
                 /\ procs' = [procs EXCEPT ![p] =
                      [NextBriefing(pr,
                          [no |-> 0, stage |-> "saved",
                           matches |-> pinecone_matches,
                           alert_id |-> alert_id])
                       EXCEPT !.alerts_created = Append(@,
                          [alert_id |-> alert_id,
                           title |-> briefing.title,
                           priority |-> priority,
                           related_docs_count |-> Len(pinecone_matches)])]]
    /\ UNCHANGED <<profiles, index, next_uuid, calc, files>>

\* The results summary after the loop.
AnalyzeReturn(p) ==
    /\ procs[p].pc = "briefing"
    /\ procs[p].i > Len(procs[p].briefings)
    /\ Return(p, [procs[p].result EXCEPT
                     !.alerts_created = Len(procs[p].alerts_created),
                     !.alerts = procs[p].alerts_created,
                     !.success = TRUE])
    /\ UNCHANGED <<store, calc, files>>

(***************************************************************************)
(* google_service.scan_public_sources and run_article_search_pipeline.     *)
(* A page of the search API is [kind, items]: kind is "items", "no_items"  *)
(* (a result without the key) or "raise".                                  *)
(***************************************************************************)
ResultsPerPage == 10

MaxQueryTerms == 10

ItemGet(item, key, default) ==
    IF key \in DOMAIN item THEN item[key] ELSE default

ToArticles(items) ==
    [k \in 1..Len(items) |->
        [title |-> ItemGet(items[k], "title", "Untitled"),
         link |-> ItemGet(items[k], "link", ""),
         snippet |-> ItemGet(items[k], "snippet", "")]]

PageAt(pages, page) ==
    IF page + 1 <= Len(pages) THEN pages[page + 1]
    ELSE [kind |-> "no_items", items |-> <<>>]

\* The loop over the pages: the articles collected and the requests made,
\* each request with its start index and num.
RECURSIVE ScanLoop(_, _, _, _, _, _)
ScanLoop(pages, max_results, num_pages, page, articles, requests) ==
    IF page >= num_pages
    THEN [articles |-> articles, requests |-> requests]
    ELSE LET start_index == page * ResultsPerPage + 1
             request == [start |-> start_index,
                         num |-> Min(ResultsPerPage,
                                     max_results - Len(articles))]
             result == PageAt(pages, page)
             collected == articles \o ToArticles(result.items)
         IN IF result.kind = "items"
            THEN IF Len(collected) >= max_results
                 THEN [articles |-> collected,
                       requests |-> Append(requests, request)]
                 ELSE ScanLoop(pages, max_results, num_pages, page + 1,
                               collected, Append(requests, request))
            ELSE [articles |-> articles,
                  requests |-> Append(requests, request)]

UniqueByLinkBug(articles) == articles

ScanPublicSourcesNoCap(cse_id_set, extracted_terms, max_results, pages) ==
    LET num_pages == (max_results + ResultsPerPage - 1) \div ResultsPerPage
        scan == ScanLoop(pages, max_results, num_pages, 0, <<>>, <<>>)
    IN [raised |-> FALSE, articles |-> scan.articles,
        requests |-> scan.requests]

\* list({a['link']: a for a in articles}.values()): one article per link, at
\* the place of the link's first article, with the fields of its last.
UniqueByLink(articles) ==
    LET first == {k \in 1..Len(articles) :
                     \A j \in 1..(k - 1) : articles[j].link # articles[k].link}
        LastOf(k) == CHOOSE j \in 1..Len(articles) :
                        /\ articles[j].link = articles[k].link
                        /\ \A m \in (j + 1)..Len(articles) :
                               articles[m].link # articles[k].link
        RECURSIVE Walk(_)
        Walk(k) == IF k > Len(articles) THEN <<>>
                   ELSE IF k \in first
                        THEN <<articles[LastOf(k)]>> \o Walk(k + 1)
                        ELSE Walk(k + 1)
    IN Walk(1)

\* scan_public_sources: raised (GOOGLE_CSE_ID unset), the list returned and
\* the page requests made.
ScanPublicSources(cse_id_set, extracted_terms, max_results, pages) ==
    IF ~cse_id_set
    THEN [raised |-> TRUE, articles |-> <<>>, requests |-> <<>>]
    ELSE IF extracted_terms = <<>>
    THEN [raised |-> FALSE, articles |-> <<>>, requests |-> <<>>]
    ELSE LET num_pages == (max_results + ResultsPerPage - 1)
                              \div ResultsPerPage
             scan == ScanLoop(pages, max_results, num_pages, 0, <<>>, <<>>)
             unique_articles == UniqueByLink(scan.articles)
         IN [raised |-> FALSE,
             articles |-> Take(unique_articles, max_results),
             requests |-> scan.requests]

ItemPool ==
    {[title |-> "t1", link |-> "l1", snippet |-> "s1"],
     [title |-> "t2", link |-> "l2", snippet |-> "s2"],
     [title |-> "t3", link |-> "l1", snippet |-> "s3"]}

MaxPageItems == 2

MaxPages == 2

\* A page that gives the ten results asked for, and one that gives eleven.
PageNames == <<"a1", "a2", "a3", "a4", "a5", "a6", "a7", "a8", "a9", "a10",
               "a11">>

FullPage(n) ==
    [k \in 1..n |-> [title |-> PageNames[k], link |-> PageNames[k],
                     snippet |-> PageNames[k]]]

PageOutcomes ==
    {[kind |-> "raise", items |-> <<>>], [kind |-> "no_items", items |-> <<>>]}
        \cup {[kind |-> "items", items |-> it] :
                 it \in SeqsUpTo(ItemPool, MaxPageItems)}
        \cup {[kind |-> "items", items |-> FullPage(n)] :
                 n \in {ResultsPerPage, ResultsPerPage + 1}}

MaxResultsChoices == {1, 11}

SearchResult0 ==
    [success |-> FALSE, articles_found |-> 0, articles |-> <<>>,
     search_query |-> <<>>, error |-> ""]

\* run_article_search_pipeline called by a caller of the services package.
SearchBegin(p, u, max_results) ==
    /\ procs[p].pc \in {"idle", "done"}
    /\ procs' = [procs EXCEPT ![p] =
                    [IdleProc EXCEPT !.pc = "get_profile", !.op = "search",
                                     !.user_id = u, !.pre = Snapshot,
                                     !.max_results = max_results,
                                     !.result = SearchResult0]]
    /\ UNCHANGED <<store, calc, files>>

MaxDaysBack == 30

MaxResultsLimit == 50

SearchParamError(days_back, max_results) ==
    IF days_back < 1 \/ days_back > MaxDaysBack
    THEN "days_back must be an integer between 1 and 30"
    ELSE IF max_results < 1 \/ max_results > MaxResultsLimit
    THEN "max_results must be an integer between 1 and 50"
    ELSE ""

\* app.search_articles up to the call of run_article_search_pipeline.
HttpSearchArticles(p, cred, days_back, max_results) ==
    /\ procs[p].pc \in {"idle", "done"}
    /\ LET auth == VerifyToken(cred)
           base == [IdleProc EXCEPT !.op = "search", !.via = "http",
                                    !.cred = cred, !.pre = Snapshot]
           error_msg == SearchParamError(days_back, max_results)
       IN procs' = [procs EXCEPT ![p] =
            IF auth.raised
            THEN [base EXCEPT !.pc = "done", !.status = 401,
                              !.result = [success |-> FALSE,
                                          error |-> "auth"]]
            ELSE IF error_msg # ""
            THEN [base EXCEPT !.pc = "done", !.status = 400,
                              !.user_id = auth.uid,
                              !.result = [success |-> FALSE,
                                          error |-> error_msg]]
            ELSE [base EXCEPT !.pc = "get_profile", !.user_id = auth.uid,
                              !.max_results = max_results,
                              !.result = SearchResult0]]
    /\ UNCHANGED <<store, calc, files>>

\* run_article_search_pipeline STEP 1 without the test of the terms.
SearchCheckTermsUnchecked(p) ==
    /\ procs[p].pc = "read_profile"
    /\ procs[p].op = "search"
    /\ procs' = [procs EXCEPT
           ![p].pc = "scan",
           ![p].terms = procs[p].profile.extracted_search_terms]
    /\ UNCHANGED <<store, calc, files>>

\* run_article_search_pipeline STEP 1: the terms of the profile that
\* get_profile_from_firestore returned.
SearchCheckTerms(p) ==
    /\ procs[p].pc = "read_profile"
    /\ procs[p].op = "search"
    /\ LET extracted_terms == procs[p].profile.extracted_search_terms
       IN IF extracted_terms = <<>>
          THEN Return(p, [procs[p].result EXCEPT !.error =
                   "No case file uploaded. Please upload a case file first."])
          ELSE procs' = [procs EXCEPT ![p].pc = "scan",
                                      ![p].terms = extracted_terms]
    /\ UNCHANGED <<store, calc, files>>

\* run_article_search_pipeline STEP 2: scan_public_sources.
SearchScan(p) ==
    /\ procs[p].pc = "scan"
    /\ \E cse_id_set \in BOOLEAN, pages \in SeqsUpTo(PageOutcomes, 1) :
         LET scan == ScanPublicSources(cse_id_set, procs[p].terms,
                                       procs[p].max_results, pages)
         IN IF scan.raised
            THEN Return(p, [procs[p].result EXCEPT !.error =
                     "GOOGLE_CSE_ID environment variable is required"])
            ELSE Return(p, [procs[p].result EXCEPT
                     !.articles = scan.articles,
                     !.articles_found = Len(scan.articles),
                     !.search_query = Take(procs[p].terms, MaxQueryTerms),
                     !.success = TRUE])
    /\ UNCHANGED <<store, calc, files>>

\* get_pipeline_status called by a caller of the services package.
StatusBegin(p, u) ==
    /\ procs[p].pc \in {"idle", "done"}
    /\ procs' = [procs EXCEPT ![p] =
                    [IdleProc EXCEPT !.pc = "get_profile", !.op = "status",
                                     !.user_id = u, !.pre = Snapshot,
                                     !.result = [is_none |-> TRUE]]]
    /\ UNCHANGED <<store, calc, files>>

\* bool(name) of a document name: None and "" are false.
HasName(name) == name # "None" /\ name # ""

\* get_pipeline_status: the status made of the profile that
\* get_profile_from_firestore returned.
StatusReturn(p) ==
    /\ procs[p].pc = "read_profile"
    /\ procs[p].op = "status"
    /\ LET profile == procs[p].profile
       IN Return(p, [is_none |-> FALSE,
                     has_uploaded_case |-> HasName(profile.monitored_doc_name),
                     extracted_terms_count |->
                         Len(profile.extracted_search_terms),
                     upload_count |-> profile.doc_upload_count,
                     upload_limit |-> profile.doc_upload_limit,
                     monitored_doc_name |-> profile.monitored_doc_name])
    /\ UNCHANGED <<store, calc, files>>

(***************************************************************************)
(* The service handling one request at a time.                             *)
(***************************************************************************)
Init ==
    /\ profiles = <<>>
    /\ index = {}
    /\ alerts = <<>>
    /\ next_uuid = 1
    /\ procs = [p \in Procs |-> IdleProc]
    /\ files = <<>>
    /\ calc = [fn |-> "none"]

DaysBackChoices == {0, 7}

\* The upload and search pipelines, one request at a time.
Step(p) ==
    \/ \E u \in Users, f \in FileNames : UploadBegin(p, u, f)
    \/ \E cred \in Credentials, file \in FileRequests, f \in FileNames :
           HttpUploadCaseFile(p, cred, file, f)
    \/ GetProfile(p)
    \/ CreateProfile(p)
    \/ GetCreatedProfile(p)
    \/ UploadCheckLimit(p)
    \/ UploadExtract(p)
    \/ UploadSaveTerms(p)
    \/ UploadEmbed(p)
    \/ UploadUpsert(p)
    \/ UploadUpdateCount(p)
    \/ \E u \in Users, m \in MaxResultsChoices : SearchBegin(p, u, m)
    \/ \E cred \in Credentials, d \in DaysBackChoices,
          m \in MaxResultsChoices \cup {0} :
           HttpSearchArticles(p, cred, d, m)
    \/ SearchCheckTerms(p)
    \/ SearchScan(p)
    \/ \E u \in Users : StatusBegin(p, u)
    \/ StatusReturn(p)

Next == \E p \in SeqProcs : Step(p)

Spec == Init /\ [][Next]_vars

(***************************************************************************)
(* The analysis pipeline, one request of each process, over an index that  *)
(* holds the chunks of earlier uploads of both users.                      *)
(***************************************************************************)
ChunkVecs == {0, 4}

MaxStoredChunks == 3

\* The index after each user of us, in turn, uploaded the chunks of cs[u].
RECURSIVE UploadedIndex(_, _, _, _)
UploadedIndex(us, cs, idx, uuid) ==
    IF us = {} THEN idx
    ELSE LET u == CHOOSE x \in us : TRUE
             pairs == [k \in 1..Len(cs[u]) |->
                          [chunk |-> [blank |-> FALSE, vec |-> cs[u][k]],
                           embedding |-> <<cs[u][k]>>]]
             up == UpsertDocumentChunks(idx, u, "case.pdf", pairs, uuid, 0)
         IN UploadedIndex(us \ {u}, cs, up.index, uuid + up.built)

\* The profiles after those uploads: a user who uploaded has the document
\* counted and its terms stored.
UploadedProfiles(cs) ==
    [u \in {x \in Users : cs[x] # <<>>} |->
        [DefaultProfile EXCEPT !.monitored_doc_name = "case.pdf",
                               !.doc_upload_count = 1,
                               !.extracted_search_terms = <<Abcd, Wxyz, Abc>>]]

InitAnalysis ==
    /\ \E cs \in [Users -> SeqsUpTo(ChunkVecs, MaxStoredChunks)] :
         /\ Len(cs["u2"]) <= 1
         /\ \A u \in Users : \A i, j \in 1..Len(cs[u]) :
                i < j => cs[u][i] <= cs[u][j]
         /\ profiles = UploadedProfiles(cs)
         /\ index = UploadedIndex(Users, cs, {}, 1)
         /\ next_uuid = 1 + Len(cs["test_user_local"]) + Len(cs["u2"])
    /\ alerts = <<>>
    /\ procs = [p \in Procs |-> IdleProc]
    /\ files = <<>>
    /\ calc = [fn |-> "none"]

StepAnalysis(p) ==
    \/ \E u \in Users, as \in ArticleLists : AnalyzeBegin(p, u, as)
    \/ \E cred \in Credentials, as \in HttpArticleLists :
           HttpAnalyzeArticles(p, cred, as)
    \/ AnalyzeSummarize(p)
    \/ AnalyzeBriefing(p)
    \/ JudgeBriefing(p)
    \/ SaveBriefingAlert(p)
    \/ AnalyzeReturn(p)

NextAnalysis == \E p \in SeqProcs : StepAnalysis(p)

SpecAnalysis == InitAnalysis /\ [][NextAnalysis]_vars

(***************************************************************************)
(* Two analysis requests, one after the other, each of either user, over   *)
(* an index in which each user has two chunks.                             *)
(***************************************************************************)
TwiceChunks == {<<0, 0>>, <<0, 4>>}

InitAnalysisTwice ==
    /\ \E cs \in [Users -> TwiceChunks] :
         /\ profiles = UploadedProfiles(cs)
         /\ index = UploadedIndex(Users, cs, {}, 1)
         /\ next_uuid = 1 + Len(cs["test_user_local"]) + Len(cs["u2"])
    /\ alerts = <<>>
    /\ procs = [p \in Procs |-> IdleProc]
    /\ files = <<>>
    /\ calc = [fn |-> "none"]

TwiceArticleLists == {Take(ArticlePool, 1), Take(ArticlePool, 2)}

\* A call of run_article_analysis_pipeline by process p.
StepAnalysisTwice(p) ==
    \/ \E u \in Users, as \in TwiceArticleLists : AnalyzeBegin(p, u, as)
    \/ AnalyzeSummarize(p)
    \/ AnalyzeBriefing(p)
    \/ JudgeBriefing(p)
    \/ SaveBriefingAlert(p)
    \/ AnalyzeReturn(p)

NextAnalysisTwice ==
    \/ StepAnalysisTwice("p1")
    \/ procs["p1"].pc = "done" /\ StepAnalysisTwice("p2")

SpecAnalysisTwice == InitAnalysisTwice /\ [][NextAnalysisTwice]_vars

(***************************************************************************)
(* The index under uploads, deletions and analyses: p1 uploads case files  *)
(* and deletes a user's documents while p2 analyses an article; their      *)
(* steps interleave freely.                                                *)
(***************************************************************************)
DeleteUserDocumentsAll(idx, u, ok) ==
    IF ok THEN [index |-> {}, result |-> TRUE]
    ELSE [index |-> idx, result |-> FALSE]

\* delete_user_documents: index.delete(filter={"user_id": user_id}); a call
\* that raises deletes nothing and returns False.
DeleteUserDocuments(idx, u, ok) ==
    IF ok THEN [index |-> {v \in idx : ~MatchesFilter(v, [user_id |-> u])},
                result |-> TRUE]
    ELSE [index |-> idx, result |-> FALSE]

CallDeleteUserDocuments(p, u) ==
    /\ procs[p].pc \in {"idle", "done"}
    /\ \E ok \in BOOLEAN :
         LET del == DeleteUserDocuments(index, u, ok)
         IN /\ index' = del.index
            /\ procs' = [procs EXCEPT ![p] =
                  [IdleProc EXCEPT !.pc = "done", !.op = "delete",
                                   !.user_id = u, !.pre = Snapshot,
                                   !.result = [success |-> del.result,
                                               error |-> ""]]]
    /\ UNCHANGED <<profiles, alerts, next_uuid, calc, files>>

AtRest(p) == procs[p].pc \in {"idle", "done"}

StepIndex(p) ==
    \/ \E u \in Users, f \in FileNames : UploadBegin(p, u, f)
    \/ GetProfile(p)
    \/ CreateProfile(p)
    \/ GetCreatedProfile(p)
    \/ UploadCheckLimit(p)
    \/ UploadExtract(p)
    \/ UploadSaveTerms(p)
    \/ UploadEmbed(p)
    \/ UploadUpsert(p)
    \/ UploadUpdateCount(p)
    \/ \E u \in Users : CallDeleteUserDocuments(p, u)

\* A call of run_article_analysis_pipeline with one article.
StepAnalysisOne(p) ==
    \/ \E u \in Users : AnalyzeBegin(p, u, Take(ArticlePool, 1))
    \/ AnalyzeSummarize(p)
    \/ AnalyzeBriefing(p)
    \/ JudgeBriefing(p)
    \/ SaveBriefingAlert(p)
    \/ AnalyzeReturn(p)

\* A call of run_article_analysis_pipeline with one article by user u2.
StepIndexAnalysis(p) ==
    \/ AnalyzeBegin(p, "u2", Take(ArticlePool, 1))
    \/ AnalyzeSummarize(p)
    \/ AnalyzeBriefing(p)
    \/ JudgeBriefing(p)
    \/ SaveBriefingAlert(p)
    \/ AnalyzeReturn(p)

NextIndex ==
    \/ StepIndex("p1")
    \/ StepIndexAnalysis("p2")

SpecIndex == Init /\ [][NextIndex]_vars

(***************************************************************************)
(* The alerts under analyses and mark_alert_as_read: p1 analyses articles, *)
(* p2 marks alerts as read, between any two steps of p1.                   *)
(***************************************************************************)
MarkAlertAsReadToggle(as, user_id, alert_id, ok) ==
    IF ok /\ alert_id \in 1..Len(as)
    THEN [alerts |-> [as EXCEPT ![alert_id].status =
                          IF @ = "read" THEN "unread" ELSE "read"],
          result |-> TRUE]
    ELSE [alerts |-> as, result |-> FALSE]

\* mark_alert_as_read: the update of the alert document with id alert_id;
\* it raises when there is no such document (ok = FALSE: it raises for
\* another reason), and the function then returns False.  user_id is only
\* logged.
MarkAlertAsRead(as, user_id, alert_id, ok) ==
    IF ok /\ alert_id \in 1..Len(as)
    THEN [alerts |-> [as EXCEPT ![alert_id].status = "read"],
          result |-> TRUE]
    ELSE [alerts |-> as, result |-> FALSE]

MaxAlertId == 3

CallMarkAlertAsRead(p, u, alert_id) ==
    /\ procs[p].pc \in {"idle", "done"}
    /\ \E ok \in BOOLEAN :
         LET mark == MarkAlertAsRead(alerts, u, alert_id, ok)
         IN /\ alerts' = mark.alerts
            /\ procs' = [procs EXCEPT ![p] =
                  [IdleProc EXCEPT !.pc = "done", !.op = "mark_read",
                                   !.user_id = u, !.i = alert_id,
                                   !.result = [success |-> mark.result,
                                               error |-> ""]]]
    /\ UNCHANGED <<profiles, index, next_uuid, calc, files>>

NextAlerts ==
    \/ StepAnalysisTwice("p1")
    \/ \E u \in Users, alert_id \in 1..MaxAlertId :
           CallMarkAlertAsRead("p2", u, alert_id)

SpecAlerts == InitAnalysisTwice /\ [][NextAlerts]_vars

(***************************************************************************)
(* CHATBOT/law/app.py format_response, on texts that are sequences of      *)
(* characters.                                                             *)
(***************************************************************************)
Newline == "\n"

\* The character U+2022.
Bullet == "u2022"

IsWhite(c) == c \in {" ", "\t", Newline}

IsDigit(c) == c \in {"0", "1", "2", "3", "4", "5", "6", "7", "8", "9"}

MinOf(S) == CHOOSE x \in S : \A y \in S : x <= y

RECURSIVE LStripWhite(_)
LStripWhite(s) ==
    IF s # <<>> /\ IsWhite(Head(s)) THEN LStripWhite(Tail(s)) ELSE s

RECURSIVE RStripWhite(_)
RStripWhite(s) == IF s # <<>> /\ IsWhite(s[Len(s)])
                  THEN RStripWhite(SubSeq(s, 1, Len(s) - 1))
                  ELSE s

\* str.strip().
StripWhite(s) == RStripWhite(LStripWhite(s))

EscapeChar(c) ==
    IF c = "&" THEN <<"&", "a", "m", "p", ";">>
    ELSE IF c = "<" THEN <<"&", "l", "t", ";">>
    ELSE IF c = ">" THEN <<"&", "g", "t", ";">>
    ELSE IF c = "\"" THEN <<"&", "q", "u", "o", "t", ";">>
    ELSE IF c = "'" THEN <<"&", "#", "x", "2", "7", ";">>
    ELSE <<c>>

\* html.escape(text), from i on: up to the next character that is replaced.
RECURSIVE HtmlEscapeFrom(_, _)
HtmlEscapeFrom(text, i) ==
    LET S == {j \in i..Len(text) : EscapeChar(text[j]) # <<text[j]>>}
    IN IF S = {} THEN SubSeq(text, i, Len(text))
       ELSE SubSeq(text, i, MinOf(S) - 1) \o EscapeChar(text[MinOf(S)])
               \o HtmlEscapeFrom(text, MinOf(S) + 1)

HtmlEscape(text) == HtmlEscapeFrom(text, 1)

\* The tags format_response writes.
HtmlTag ==
    [strong |-> <<"<", "s", "t", "r", "o", "n", "g", ">">>,
     strong_end |-> <<"<", "/", "s", "t", "r", "o", "n", "g", ">">>,
     br |-> <<"<", "b", "r", ">">>,
     ol |-> <<"<", "o", "l", ">">>,
     ol_end |-> <<"<", "/", "o", "l", ">">>,
     ul |-> <<"<", "u", "l", ">">>,
     ul_end |-> <<"<", "/", "u", "l", ">">>,
     li |-> <<"<", "l", "i", ">">>,
     li_end |-> <<"<", "/", "l", "i", ">">>]

\* The first position from i on whose character is not white space, is not
\* a digit, or ends the heading ([^:<\n]); Len(text) + 1 when there is none.
SkipWhite(text, i) ==
    LET S == {j \in i..Len(text) : ~IsWhite(text[j])}
    IN IF S = {} THEN Len(text) + 1 ELSE MinOf(S)

SkipDigits(text, i) ==
    LET S == {j \in i..Len(text) : ~IsDigit(text[j])}
    IN IF S = {} THEN Len(text) + 1 ELSE MinOf(S)

SkipHeading(text, i) ==
    LET S == {j \in i..Len(text) : text[j] \in {":", "<", Newline}}
    IN IF S = {} THEN Len(text) + 1 ELSE MinOf(S)

\* Where the "**" that closes the one at i, i + 1 starts: the first "**"
\* from i + 2 on with no line break before it; 0 when there is none.
ClosingStars(text, i) ==
    LET S == {j \in (i + 2)..(Len(text) - 1) :
                 /\ text[j] = "*"
                 /\ text[j + 1] = "*"
                 /\ \A k \in (i + 2)..(j - 1) : text[k] # Newline}
    IN IF S = {} THEN 0 ELSE MinOf(S)

\* re.sub(r"\*\*(.*?)\*\*", r"<strong>\1</strong>", text), from i on: up
\* to the leftmost match and on from its end.
RECURSIVE BoldSub(_, _)
BoldSub(text, i) ==
    LET S == {s \in i..(Len(text) - 1) :
                 /\ text[s] = "*"
                 /\ text[s + 1] = "*"
                 /\ ClosingStars(text, s) # 0}
    IN IF S = {} THEN SubSeq(text, i, Len(text))
       ELSE LET s == MinOf(S)
                j == ClosingStars(text, s)
            IN SubSeq(text, i, s - 1) \o HtmlTag.strong
                  \o SubSeq(text, s + 2, j - 1) \o HtmlTag.strong_end
                  \o BoldSub(text, j + 2)

\* A match of ^(\s*\d+\.\s*)([^:<\n]+): at the line start i: g is where
\* group 2 starts and h where the colon is.  \s matches a line break too.
\* When no character can follow the white space before the colon, the
\* white space gives its last character, unless a line break, to group 2.
HeadingMatch(text, i) ==
    LET a == SkipWhite(text, i)
        d == SkipDigits(text, a)
        numbered == d > a /\ d <= Len(text) /\ text[d] = "."
        g == SkipWhite(text, d + 1)
        h == SkipHeading(text, g)
    IN IF numbered /\ h > g /\ h <= Len(text) /\ text[h] = ":"
       THEN [ok |-> TRUE, g |-> g, h |-> h]
       ELSE IF /\ numbered
               /\ h = g
               /\ g <= Len(text)
               /\ text[g] = ":"
               /\ g > d + 1
               /\ text[g - 1] # Newline
            THEN [ok |-> TRUE, g |-> g - 1, h |-> g]
            ELSE [ok |-> FALSE, g |-> 0, h |-> 0]

\* re.sub(r"^(\s*\d+\.\s*)([^:<\n]+):", r"\1<strong>\2</strong>:", text,
\* flags=re.M), from i on: up to the leftmost match and on from its end.
RECURSIVE HeadingSub(_, _)
HeadingSub(text, i) ==
    LET S == {s \in i..Len(text) :
                 /\ s = 1 \/ text[s - 1] = Newline
                 /\ HeadingMatch(text, s).ok}
    IN IF S = {} THEN SubSeq(text, i, Len(text))
       ELSE LET s == MinOf(S)
                m == HeadingMatch(text, s)
            IN SubSeq(text, i, m.g - 1) \o HtmlTag.strong
                  \o SubSeq(text, m.g, m.h - 1) \o HtmlTag.strong_end \o <<":">>
                  \o HeadingSub(text, m.h + 1)

\* text.splitlines().
RECURSIVE SplitLines(_)
SplitLines(text) ==
    IF text = <<>> THEN <<>>
    ELSE LET S == {j \in 1..Len(text) : text[j] = Newline}
         IN IF S = {} THEN <<text>>
            ELSE <<SubSeq(text, 1, MinOf(S) - 1)>>
                    \o SplitLines(SubSeq(text, MinOf(S) + 1, Len(text)))

\* re.match(r"^\d+\.\s+(.*)", stripped).
OlMatch(stripped) ==
    LET d == SkipDigits(stripped, 1)
        g == SkipWhite(stripped, d + 1)
    IN IF d > 1 /\ d <= Len(stripped) /\ stripped[d] = "." /\ g > d + 1
       THEN [matched |-> TRUE, group |-> SubSeq(stripped, g, Len(stripped))]
       ELSE [matched |-> FALSE, group |-> <<>>]

\* re.match(r"^[-•\*]\s+(.*)", stripped).
UlMatch(stripped) ==
    LET g == SkipWhite(stripped, 2)
    IN IF stripped # <<>> /\ stripped[1] \in {"-", Bullet, "*"} /\ g > 2
       THEN [matched |-> TRUE, group |-> SubSeq(stripped, g, Len(stripped))]
       ELSE [matched |-> FALSE, group |-> <<>>]

\* The loop over the lines and the closing of the lists after it: what is
\* appended to out from line k on.
RECURSIVE FormatLines(_, _, _, _)
FormatLines(lines, k, in_ul, in_ol) ==
    IF k > Len(lines)
    THEN (IF in_ul THEN <<HtmlTag.ul_end>> ELSE <<>>)
            \o (IF in_ol THEN <<HtmlTag.ol_end>> ELSE <<>>)
    ELSE LET stripped == StripWhite(lines[k])
             ol_match == OlMatch(stripped)
             ul_match == UlMatch(stripped)
         IN IF ol_match.matched
            THEN (IF ~in_ol
                  THEN (IF in_ul THEN <<HtmlTag.ul_end>> ELSE <<>>) \o <<HtmlTag.ol>>
                  ELSE <<>>)
                    \o <<HtmlTag.li \o ol_match.group \o HtmlTag.li_end>>
                    \o FormatLines(lines, k + 1,
                                   IF ~in_ol THEN FALSE ELSE in_ul, TRUE)
            ELSE IF ul_match.matched
            THEN (IF ~in_ul
                  THEN (IF in_ol THEN <<HtmlTag.ol_end>> ELSE <<>>) \o <<HtmlTag.ul>>
                  ELSE <<>>)
                    \o <<HtmlTag.li \o ul_match.group \o HtmlTag.li_end>>
                    \o FormatLines(lines, k + 1, TRUE,
                                   IF ~in_ul THEN FALSE ELSE in_ol)
            ELSE (IF in_ul THEN <<HtmlTag.ul_end>> ELSE <<>>)
                    \o (IF in_ol THEN <<HtmlTag.ol_end>> ELSE <<>>)
                    \o (IF stripped = <<>> THEN <<HtmlTag.br>> ELSE <<stripped>>)
                    \o FormatLines(lines, k + 1, FALSE, FALSE)

\* sep.join(parts).
RECURSIVE Join(_, _)
Join(parts, sep) ==
    IF parts = <<>> THEN <<>>
    ELSE IF Len(parts) = 1 THEN parts[1]
    ELSE parts[1] \o sep \o Join(Tail(parts), sep)

\* The repetitions of <br>\s* from i on: how many, and where they end.
RECURSIVE BrUnits(_, _)
BrUnits(text, i) ==
    IF ~(i + 3 <= Len(text) /\ SubSeq(text, i, i + 3) = HtmlTag.br)
    THEN [n |-> 0, end |-> i]
    ELSE LET rest == BrUnits(text, SkipWhite(text, i + 4))
         IN [n |-> rest.n + 1, end |-> rest.end]

\* re.sub(r"(?:<br>\s*){2,}", "<br>", html_text), from i on: up to the
\* leftmost match and on from its end.
RECURSIVE CollapseBr(_, _)
CollapseBr(text, i) ==
    LET S == {s \in i..Len(text) : BrUnits(text, s).n >= 2}
    IN IF S = {} THEN SubSeq(text, i, Len(text))
       ELSE SubSeq(text, i, MinOf(S) - 1) \o HtmlTag.br
               \o CollapseBr(text, BrUnits(text, MinOf(S)).end)

FormatResponse(text) ==
    IF text = <<>> THEN <<>>
    ELSE LET escaped == HtmlEscape(StripWhite(text))
             bold == BoldSub(escaped, 1)
             headed == HeadingSub(bold, 1)
             lines == SplitLines(headed)
             out == FormatLines(lines, 1, FALSE, FALSE)
             html_text == Join(out, HtmlTag.br)
         IN StripWhite(CollapseBr(html_text, 1))

\* The lines a reply is made of.
LinePool ==
    {<<"1", ".", " ", "a">>,
     <<"2", ".", " ", "H", ":", " ", "x">>,
     <<"3", ".">>,
     <<" ", "4", ".", " ", "c", " ">>,
     <<"-", " ", "a">>,
     <<"*", " ", "*", "*", "b", "*", "*">>,
     <<>>,
     <<"a", ":">>,
     <<"<", "o", "l", ">">>}

MaxLines == 3

InitFormat ==
    /\ profiles = <<>>
    /\ index = {}
    /\ alerts = <<>>
    /\ next_uuid = 1
    /\ procs = [p \in Procs |-> IdleProc]
    /\ files = <<>>
    /\ \E lines \in SeqsUpTo(LinePool, MaxLines) :
         calc = [fn |-> "format_response", stage |-> "call",
                 in |-> [text |-> Join(lines, <<Newline>>)], out |-> <<>>]

CallFormatResponse ==
    /\ calc.fn = "format_response"
    /\ calc.stage = "call"
    /\ calc' = [calc EXCEPT !.stage = "return",
                            !.out = FormatResponse(calc.in.text)]
    /\ UNCHANGED <<store, procs, files>>

NextFormat == CallFormatResponse

SpecFormat == InitFormat /\ [][NextFormat]_vars

(***************************************************************************)
(* Concurrent requests: each of the two processes makes one request, an    *)
(* upload, a search or an analysis of one article, for either user, and    *)
(* their steps interleave freely.                                          *)
(***************************************************************************)
StepConcurrent(p) ==
    \/ \E u \in Users, f \in FileNames :
           procs[p].pc = "idle" /\ UploadBegin(p, u, f)
    \/ GetProfile(p)
    \/ CreateProfile(p)
    \/ GetCreatedProfile(p)
    \/ UploadCheckLimit(p)
    \/ UploadExtract(p)
    \/ UploadSaveTerms(p)
    \/ UploadEmbed(p)
    \/ UploadUpsert(p)
    \/ UploadUpdateCount(p)
    \/ \E u \in Users, m \in MaxResultsChoices :
           procs[p].pc = "idle" /\ SearchBegin(p, u, m)
    \/ SearchCheckTerms(p)
    \/ SearchScan(p)
    \/ \E u \in Users : procs[p].pc = "idle" /\ StatusBegin(p, u)
    \/ StatusReturn(p)
    \/ StepAnalysisOne(p)

NextConcurrent == \E p \in Procs : StepConcurrent(p)

SpecConcurrent == Init /\ [][NextConcurrent]_vars

(***************************************************************************)
(* run_extraction_pipeline as a function of what the NER pipeline and the  *)
(* generative model give for a document with enough text.                  *)
(***************************************************************************)
AbSpaced == <<" ", "a", "b", "c", "d", " ">>

Ab == <<"a", "b">>

WordPool == {Abcd, AbcdUpper, AbSpaced, Wxyz, Abc}

PiecePool == {Abcd, AbcdUpper, Abc, Ab, <<" ">>}

InitTerms ==
    /\ profiles = <<>>
    /\ index = {}
    /\ alerts = <<>>
    /\ next_uuid = 1
    /\ procs = [p \in Procs |-> IdleProc]
    /\ files = <<>>
    /\ \E ner_ok \in BOOLEAN, words \in SeqsUpTo(WordPool, MaxNerWords),
          pieces \in SeqsUpTo(PiecePool, MaxPieces) :
         calc = [fn |-> "run_extraction_pipeline", stage |-> "call",
                 in |-> [text_len |-> MinTextLen,
                         ner |-> [ok |-> ner_ok, words |-> words],
                         gem |-> [ok |-> TRUE, text |-> JoinComma(pieces)]],
                 out |-> <<>>]

CallRunExtractionPipeline ==
    /\ calc.fn = "run_extraction_pipeline"
    /\ calc.stage = "call"
    /\ calc' = [calc EXCEPT !.stage = "return",
                            !.out = RunExtractionPipeline(calc.in)]
    /\ UNCHANGED <<store, procs, files>>

NextTerms == CallRunExtractionPipeline

SpecTerms == InitTerms /\ [][NextTerms]_vars

(***************************************************************************)
(* scan_public_sources as a function of max_results and of what the search *)
(* API gives for each page.                                                *)
(***************************************************************************)
ScanMaxResults == {1, 2, 10, 11, 21}

InitScan ==
    /\ profiles = <<>>
    /\ index = {}
    /\ alerts = <<>>
    /\ next_uuid = 1
    /\ procs = [p \in Procs |-> IdleProc]
    /\ files = <<>>
    /\ \E max_results \in ScanMaxResults,
          pages \in SeqsUpTo(PageOutcomes, MaxPages) :
         calc = [fn |-> "scan_public_sources", stage |-> "call",
                 in |-> [extracted_terms |-> <<Abcd, Wxyz, Abc>>,
                         max_results |-> max_results, pages |-> pages],
                 out |-> <<>>]

CallScanPublicSources ==
    /\ calc.fn = "scan_public_sources"
    /\ calc.stage = "call"
    /\ calc' = [calc EXCEPT !.stage = "return",
                            !.out = ScanPublicSources(TRUE,
                                        calc.in.extracted_terms,
                                        calc.in.max_results, calc.in.pages)]
    /\ UNCHANGED <<store, procs, files>>

NextScan == CallScanPublicSources

SpecScan == InitScan /\ [][NextScan]_vars

(***************************************************************************)
(* batch_get_embeddings and the pairing of STEP 5 as functions of the      *)
(* texts and of what the embedding model does.                             *)
(***************************************************************************)
EmbedTexts ==
    {[blank |-> TRUE, vec |-> 0]}
        \cup {[blank |-> FALSE, vec |-> v] : v \in Vecs}

MaxTexts == 3

InitEmbed ==
    /\ profiles = <<>>
    /\ index = {}
    /\ alerts = <<>>
    /\ next_uuid = 1
    /\ procs = [p \in Procs |-> IdleProc]
    /\ files = <<>>
    /\ \E texts \in SeqsUpTo(EmbedTexts, MaxTexts) :
         \E env \in EmbedEnvs(Len(texts)) :
           calc = [fn |-> "batch_get_embeddings", stage |-> "call",
                   in |-> [texts |-> texts, env |-> env],
                   out |-> <<>>]

CallBatchGetEmbeddings ==
    /\ calc.fn = "batch_get_embeddings"
    /\ calc.stage = "call"
    /\ LET embeddings == BatchGetEmbeddings(calc.in.texts, calc.in.env)
       IN calc' = [calc EXCEPT
               !.stage = "return",
               !.out = [embeddings |-> embeddings,
                        valid_pairs |-> ValidPairs(calc.in.texts,
                                                   embeddings, 1)]]
    /\ UNCHANGED <<store, procs, files>>

NextEmbed == CallBatchGetEmbeddings

SpecEmbed == InitEmbed /\ [][NextEmbed]_vars

(***************************************************************************)
(* AI_DOC_ANALYSER/app.py, the document Q&A service.  files is its working *)
(* directory: a function from the paths that exist to what they hold.  A   *)
(* request is a process; a step is one call that may fail or that touches  *)
(* the directory, with the local code around it.  Each process keeps in    *)
(* upload_succeeded whether one of its /upload requests has been answered  *)
(* with success.                                                           *)
(***************************************************************************)
VECTOR_STORE_PATH == "faiss_index"

TEXT_FILE_PATH == "uploaded_text.txt"

NoDocumentFound == "No document found. Please upload a document first."

\* open(path, "w"), which leaves the file empty, or FAISS save_local to
\* path: the file holds content, whatever it held.
WriteFile(fs, path, content) ==
    [x \in DOMAIN fs \cup {path} |-> IF x = path THEN content ELSE fs[x]]

\* f.write(content) and the close, on a handle that open(path, "w") gave:
\* the handle is at offset 0 and a write truncates nothing, so content
\* replaces the first Len(content) characters of what the file holds now
\* and what lies beyond them stays.
WriteAtStart(fs, path, content) ==
    LET held == IF path \in DOMAIN fs THEN fs[path] ELSE <<>>
    IN WriteFile(fs, path,
                 content \o SubSeq(held, Len(content) + 1, Len(held)))

\* A page is what extract_text() gives: characters, or None.
PagePool ==
    {[is_none |-> TRUE, chars |-> <<>>],
     [is_none |-> FALSE, chars |-> <<" ">>],
     [is_none |-> FALSE, chars |-> <<"a">>]}

MaxPdfPages == 2

\* A PDF of the request: whether PdfReader can read it, and its pages.
PdfPool ==
    {[valid |-> FALSE, pages |-> <<>>]}
        \cup {[valid |-> TRUE, pages |-> ps] :
                 ps \in SeqsUpTo(PagePool, MaxPdfPages)}

\* request.files of an /upload: without the "pdfs" field, with one PDF, or
\* with two PDFs of one page each.
UploadRequests ==
    {[has_pdfs |-> FALSE, pdfs |-> <<>>]}
        \cup {[has_pdfs |-> TRUE, pdfs |-> <<pdf>>] : pdf \in PdfPool}
        \cup {[has_pdfs |-> TRUE,
               pdfs |-> <<[valid |-> TRUE, pages |-> <<page>>],
                          [valid |-> TRUE, pages |-> <<page>>]>>] :
                 page \in PagePool}

\* page.extract_text() or "".
ExtractTextOrEmpty(page) == IF page.is_none THEN <<>> ELSE page.chars

\* get_pdf_text: the text of all pages of all PDFs, stripped; PdfReader
\* raises on a file it cannot read.
GetPdfText(pdf_docs) ==
    IF \E k \in 1..Len(pdf_docs) : ~pdf_docs[k].valid
    THEN [raised |-> TRUE, text |-> <<>>]
    ELSE [raised |-> FALSE,
          text |-> Strip(Concat([k \in 1..Len(pdf_docs) |->
                     Concat([j \in 1..Len(pdf_docs[k].pages) |->
                         ExtractTextOrEmpty(pdf_docs[k].pages[j])])]))]

\* get_text_chunks: chunk_size is 10000, so a short text is one chunk.
GetTextChunks(text) == <<text>>

DocIdle ==
    [pc |-> "idle", op |-> "none", status |-> 0,
     body |-> [kind |-> "none", text |-> ""],
     has_pdfs |-> FALSE, readable |-> FALSE, text |-> <<>>,
     new_db |-> <<>>, upload_succeeded |-> FALSE]

\* return jsonify({kind: text}), status: the request is answered.
Answered(pr, status, kind, text) ==
    [pr EXCEPT !.pc = "done", !.status = status,
               !.body = [kind |-> kind, text |-> text]]

\* An exception that leaves the handler: Flask answers 500.
ServerError(pr) == Answered(pr, 500, "error", "Internal Server Error")

\* upload_pdf up to the call of get_vector_store.
UploadPdf(p, req) ==
    /\ procs[p].pc \in {"idle", "done"}
    /\ LET got == GetPdfText(req.pdfs)
           pr == [procs[p] EXCEPT !.op = "upload",
                                  !.has_pdfs = req.has_pdfs,
                                  !.readable = ~got.raised,
                                  !.text = got.text]
       IN procs' = [procs EXCEPT ![p] =
            IF ~req.has_pdfs
            THEN Answered(pr, 400, "error", "No PDF file uploaded")
            ELSE IF got.raised THEN ServerError(pr)
            ELSE IF got.text = <<>>
            THEN Answered(pr, 400, "error",
                          "No text found in the uploaded PDFs")
            ELSE [pr EXCEPT !.pc = "get_vector_store", !.status = 0,
                            !.body = DocIdle.body]]
    /\ UNCHANGED <<store, calc, files>>

\* upload_pdf: get_text_chunks and get_vector_store, which embeds the chunks
\* and saves the index to VECTOR_STORE_PATH.
UploadGetVectorStore(p) ==
    /\ procs[p].pc = "get_vector_store"
    /\ \E ok \in BOOLEAN :
         IF ok
         THEN /\ files' = WriteFile(files, VECTOR_STORE_PATH,
                                    GetTextChunks(procs[p].text))
              /\ procs' = [procs EXCEPT ![p].pc = "open_text"]
         ELSE /\ procs' = [procs EXCEPT ![p] = ServerError(@)]
              /\ UNCHANGED files
    /\ UNCHANGED <<store, calc>>

\* upload_pdf: open(TEXT_FILE_PATH, "w") creates the file or truncates it;
\* an open that raises leaves the directory as it was.
UploadOpenText(p) ==
    /\ procs[p].pc = "open_text"
    /\ \E ok \in BOOLEAN :
         IF ok
         THEN /\ files' = WriteFile(files, TEXT_FILE_PATH, <<>>)
              /\ procs' = [procs EXCEPT ![p].pc = "write_text"]
         ELSE /\ procs' = [procs EXCEPT ![p] = ServerError(@)]
              /\ UNCHANGED files
    /\ UNCHANGED <<store, calc>>

\* upload_pdf: f.write(text) and the close of the file, then the request is
\* answered with the success message.  The text is written at the start of
\* the file over what another request has written since this request's
\* open().  A write that raises leaves the file as it is.
UploadWriteText(p) ==
    /\ procs[p].pc = "write_text"
    /\ \E ok \in BOOLEAN :
         IF ok
         THEN /\ files' = WriteAtStart(files, TEXT_FILE_PATH, procs[p].text)
              /\ procs' = [procs EXCEPT ![p] =
                     [Answered(@, 200, "message",
                               "PDFs processed successfully!")
                         EXCEPT !.upload_succeeded = TRUE]]
         ELSE /\ procs' = [procs EXCEPT ![p] = ServerError(@)]
              /\ UNCHANGED files
    /\ UNCHANGED <<store, calc>>

\* explain up to the call of generate_explanation: 404 without the stored
\* text, else the text is read (kept in text).
Explain(p) ==
    /\ procs[p].pc \in {"idle", "done"}
    /\ LET pr == [DocIdle EXCEPT !.op = "explain",
               !.upload_succeeded = procs[p].upload_succeeded]
       IN procs' = [procs EXCEPT ![p] =
            IF TEXT_FILE_PATH \notin DOMAIN files
            THEN Answered(pr, 404, "error", NoDocumentFound)
            ELSE [pr EXCEPT !.pc = "generate_explanation",
                            !.text = files[TEXT_FILE_PATH]]]
    /\ UNCHANGED <<store, calc, files>>

\* explain: generate_explanation(text, language), the generative model's
\* call, and the answer with the explanation of the text that was read.
ExplainGenerate(p) ==
    /\ procs[p].pc = "generate_explanation"
    /\ \E ok \in BOOLEAN :
         procs' = [procs EXCEPT ![p] =
             IF ok THEN Answered(@, 200, "explanation", "generated")
             ELSE ServerError(@)]
    /\ UNCHANGED <<store, calc, files>>

Questions == {"", "q"}

\* ask_question up to the test of the stored index: 400 without a question,
\* else answer_question loads the embedding model.
AskQuestion(p, user_question) ==
    /\ procs[p].pc \in {"idle", "done"}
    /\ LET pr == [DocIdle EXCEPT !.op = "ask",
               !.upload_succeeded = procs[p].upload_succeeded]
       IN \E ok \in BOOLEAN :
            procs' = [procs EXCEPT ![p] =
                IF user_question = ""
                THEN Answered(pr, 400, "error", "No question provided")
                ELSE IF ok THEN [pr EXCEPT !.pc = "load_index"]
                ELSE ServerError(pr)]
    /\ UNCHANGED <<store, calc, files>>

\* answer_question: without the stored index the fixed text is the answer,
\* else FAISS.load_local reads the index (kept in new_db).
AskLoadIndex(p) ==
    /\ procs[p].pc = "load_index"
    /\ \E ok \in BOOLEAN :
         procs' = [procs EXCEPT ![p] =
             IF VECTOR_STORE_PATH \notin DOMAIN files
             THEN Answered(@, 200, "answer", NoDocumentFound)
             ELSE IF ok
             THEN [@ EXCEPT !.pc = "chain",
                            !.new_db = files[VECTOR_STORE_PATH]]
             ELSE ServerError(@)]
    /\ UNCHANGED <<store, calc, files>>

\* answer_question: the search of the loaded index and the chain's call,
\* whose output is the answer.
AskChain(p) ==
    /\ procs[p].pc = "chain"
    /\ \E ok \in BOOLEAN :
         procs' = [procs EXCEPT ![p] =
             IF ok THEN Answered(@, 200, "answer", "generated")
             ELSE ServerError(@)]
    /\ UNCHANGED <<store, calc, files>>

\* The working directory is empty when the service is first started.
InitDoc ==
    /\ profiles = <<>>
    /\ index = {}
    /\ alerts = <<>>
    /\ next_uuid = 1
    /\ calc = [fn |-> "none"]
    /\ procs = [p \in Procs |-> DocIdle]
    /\ files = <<>>

\* The development server handles requests in threads.
StepDoc(p) ==
    \/ \E req \in UploadRequests : UploadPdf(p, req)
    \/ UploadGetVectorStore(p)
    \/ UploadOpenText(p)
    \/ UploadWriteText(p)
    \/ Explain(p)
    \/ ExplainGenerate(p)
    \/ \E user_question \in Questions : AskQuestion(p, user_question)
    \/ AskLoadIndex(p)
    \/ AskChain(p)

NextDoc == \E p \in Procs : StepDoc(p)

SpecDoc == InitDoc /\ [][NextDoc]_vars

(***************************************************************************)
(* Properties.                                                             *)
(***************************************************************************)
\* The request of process p has entered its pipeline function: its result
\* is the pipeline's result dictionary.
PipelineEntered(pr) ==
    pr.pc # "idle" /\ DOMAIN pr.result # {"success", "error"}

StoresAsBefore(pr) == Snapshot = pr.pre

LimitReachedBefore(pr) ==
    /\ pr.user_id \in DOMAIN pr.pre.profiles
    /\ pr.pre.profiles[pr.user_id].doc_upload_count
           >= pr.pre.profiles[pr.user_id].doc_upload_limit

\* C1: an upload by a user whose upload count has reached the upload limit
\* ends with success = false and, the profile having been read, the error
\* 'Upload limit reached' (the error of the read when the read itself
\* raises), and at no point of it do the profiles, the index or the alerts
\* differ from what they were when it began.
C1_UploadLimitReached ==
    \A p \in SeqProcs :
        LET pr == procs[p]
        IN (pr.op = "upload" /\ PipelineEntered(pr) /\ LimitReachedBefore(pr))
              => /\ pr.pc \in {"get_profile", "read_profile", "done"}
                 /\ StoresAsBefore(pr)
                 /\ pr.pc = "done"
                       => /\ pr.result.success = FALSE
                          /\ pr.result.chunks_indexed = 0
                          /\ pr.result.error
                                = IF pr.profile = <<>> THEN FirestoreGetFailed
                                  ELSE "Upload limit reached"

C1_Witness ==
    \E p \in SeqProcs :
        /\ procs[p].op = "upload"
        /\ procs[p].pc = "done"
        /\ LimitReachedBefore(procs[p])
        /\ procs[p].pre.index # {}
        /\ procs[p].result.error = "Upload limit reached"

CountStage(log, stage) == Cardinality({k \in 1..Len(log) : log[k] = stage})

SavedAlertHasCause(a) ==
    /\ a.related_documents # <<>>
    /\ \A k \in 1..Len(a.related_documents) :
           /\ a.related_documents[k].relevance_score >= ScoreThreshold
           /\ \E v \in index : /\ v.id = a.related_documents[k].document_id
                               /\ v.user_id = a.user_id
    /\ a.impact_analysis.is_none = FALSE
    /\ UpperMarker(a.impact_analysis.marker) # "NO_IMPACT"

\* The alerts the request of pr has saved are those of its articles whose
\* iteration got as far as the save, one each.
AlertsOfSavedArticles(pr) ==
    /\ Len(pr.alerts_created) = CountStage(pr.log, "saved")
    /\ \A e \in 1..Len(pr.alerts_created) :
           LET created == pr.alerts_created[e]
           IN /\ created.alert_id \in 1..Len(alerts)
              /\ alerts[created.alert_id].title = created.title
              /\ \E k \in 1..Len(pr.articles) :
                     /\ pr.articles[k].title = created.title
                     /\ pr.log[k] = "saved"

\* C2: an alert is saved for an article only if the query of the index
\* under the user's filter gave at least one match with a score of at least
\* the threshold and the judgment was not NO_IMPACT: every stored alert has
\* such matches and an impact text without the sentinel, the iteration that
\* saved it had those matches, and an article whose iteration ended with no
\* match or no impact has no alert.
C2_AlertOnlyWithMatchAndImpact ==
    /\ \A k \in 1..Len(alerts) : SavedAlertHasCause(alerts[k])
    /\ \A p \in SeqProcs :
          (procs[p].op = "analyze"
              /\ procs[p].pc \in {"briefing", "judge", "save", "done"}
              /\ PipelineEntered(procs[p]))
             => /\ AlertsOfSavedArticles(procs[p])
                /\ Len(alerts) = Len(procs[p].alerts_created)
                /\ procs[p].pc \in {"judge", "save"}
                      => /\ procs[p].pinecone_matches # <<>>
                         /\ \A k \in 1..Len(procs[p].pinecone_matches) :
                                procs[p].pinecone_matches[k].score
                                    >= ScoreThreshold
                /\ procs[p].pc = "save"
                      => /\ procs[p].impact_analysis.is_none = FALSE
                         /\ UpperMarker(procs[p].impact_analysis.marker)
                                # "NO_IMPACT"
                /\ procs[p].last.stage = "saved"
                      => /\ procs[p].last.matches # <<>>
                         /\ \A k \in 1..Len(procs[p].last.matches) :
                                procs[p].last.matches[k].score
                                    >= ScoreThreshold
                         /\ procs[p].last.alert_id = Len(alerts)
                         /\ RelatedDocuments(procs[p].last.matches)
                                = alerts[Len(alerts)].related_documents

C2_Witness ==
    \E p \in SeqProcs :
        /\ procs[p].op = "analyze"
        /\ procs[p].pc = "done"
        /\ Len(procs[p].log) = 2
        /\ procs[p].log[1] \in {"no_impact", "no_matches"}
        /\ procs[p].log[2] = "saved"
        /\ Len(alerts) = 1
        /\ alerts[1].title = procs[p].articles[2].title

RelevanceSum(a) ==
    SumSeq([k \in 1..Len(a.related_documents) |->
               a.related_documents[k].relevance_score])

\* C3: the priority of an alert is 'high' exactly when more than one chunk
\* matched and the average of the matches' scores is strictly greater than
\* 0.8; otherwise it is 'medium': a single match is 'medium', and so is an
\* average of exactly 0.8.
C3_PriorityHighIff ==
    \A k \in 1..Len(alerts) :
        LET a == alerts[k]
            n == Len(a.related_documents)
        IN /\ a.priority \in {"high", "medium"}
           /\ a.priority = "high" <=> (n > 1 /\ RelevanceSum(a) > HighCutoff * n)

\* C4: a request to any of the three endpoints that carries no valid
\* credential is answered with status 401 and success = false and runs no
\* step of its pipeline.
C4_Unauthenticated401 ==
    \A p \in SeqProcs :
        (procs[p].via = "http" /\ procs[p].cred # "valid")
           => /\ procs[p].pc = "done"
              /\ procs[p].status = 401
              /\ procs[p].result.success = FALSE
              /\ ~PipelineEntered(procs[p])

\* C5: the related_documents of an alert saved for a user refer only to
\* chunks of the index whose user_id is that user.
C5_RelatedDocumentsOfUser ==
    \A k \in 1..Len(alerts) :
        \A j \in 1..Len(alerts[k].related_documents) :
            \A v \in index :
                v.id = alerts[k].related_documents[j].document_id
                   => v.user_id = alerts[k].user_id

C5_Witness ==
    \E k \in 1..Len(alerts) :
        /\ alerts[k].related_documents # <<>>
        /\ \E v \in index : v.user_id # alerts[k].user_id

NoDuplicateLinks(articles) ==
    \A i, j \in 1..Len(articles) :
        articles[i].link = articles[j].link => i = j

\* C6: the list scan_public_sources returns has no two articles with the
\* same link.
C6_NoDuplicateLinks ==
    (calc.fn = "scan_public_sources" /\ calc.stage = "return")
       => NoDuplicateLinks(calc.out.articles)

C6_Witness ==
    /\ calc.fn = "scan_public_sources"
    /\ calc.stage = "return"
    /\ Len(calc.in.pages) = 2
    /\ calc.in.pages[1].kind = "items"
    /\ calc.in.pages[2].kind = "items"
    /\ \E i \in 1..Len(calc.in.pages[1].items),
          j \in 1..Len(calc.in.pages[2].items) :
           calc.in.pages[1].items[i].link = calc.in.pages[2].items[j].link
    /\ calc.in.max_results > ResultsPerPage
    /\ Len(calc.out.articles) = 2

\* The items of page k of the search API (pages are counted from 1), and
\* what the first k pages give together.
PageItems(pages, k) ==
    IF k <= Len(pages) /\ pages[k].kind = "items" THEN pages[k].items ELSE <<>>

RECURSIVE ItemsUpTo(_, _)
ItemsUpTo(pages, k) ==
    IF k = 0 THEN <<>> ELSE ItemsUpTo(pages, k - 1) \o PageItems(pages, k)

PageFails(pages, k) == k <= Len(pages) /\ pages[k].kind = "raise"

\* Page k ends the scan: it has no items, it fails, or with it the number
\* of collected articles reaches max_results.
PageStops(pages, max_results, k) ==
    \/ PageItems(pages, k) = <<>>
    \/ Len(ItemsUpTo(pages, k)) >= max_results

CeilPages(max_results) ==
    CHOOSE n \in 0..max_results :
        /\ n * ResultsPerPage >= max_results
        /\ (n - 1) * ResultsPerPage < max_results

\* C11: scan_public_sources requests the pages in increasing order, each at
\* most once, and stops at the first page that has no items, that fails, or
\* after which the collected count reaches max_results; a failed page only
\* truncates the result: what the earlier pages gave is still returned.
C11_PagesInOrderUntilStop ==
    (calc.fn = "scan_public_sources" /\ calc.stage = "return")
       => LET pages == calc.in.pages
              max_results == calc.in.max_results
              requests == calc.out.requests
              n == Len(requests)
          IN /\ n >= 1
             /\ \A k \in 1..n :
                    requests[k].start = (k - 1) * ResultsPerPage + 1
             /\ \A k \in 1..(n - 1) : ~PageStops(pages, max_results, k)
             /\ PageStops(pages, max_results, n) \/ n = CeilPages(max_results)
             /\ PageFails(pages, n)
                   => calc.out.articles
                        = Take(UniqueByLink(ToArticles(ItemsUpTo(pages, n - 1))),
                               max_results)

\* C12: scan_public_sources never returns more than max_results articles
\* and never requests more than ceil(max_results / 10) pages.
C12_AtMostMaxResults ==
    (calc.fn = "scan_public_sources" /\ calc.stage = "return")
       => /\ Len(calc.out.articles) <= calc.in.max_results
          /\ Len(calc.out.requests) <= CeilPages(calc.in.max_results)
          /\ \A k \in 1..Len(calc.out.requests) :
                 /\ calc.out.requests[k].num <= ResultsPerPage
                 /\ calc.out.requests[k].num >= 1

C12_Witness ==
    /\ calc.fn = "scan_public_sources"
    /\ calc.stage = "return"
    /\ calc.in.max_results = 11
    /\ Len(calc.in.pages) = 2
    /\ calc.in.pages[1].kind = "items"
    /\ Len(calc.in.pages[1].items) = ResultsPerPage
    /\ calc.in.pages[2].kind = "items"
    /\ Len(calc.in.pages[2].items) = 2
    /\ Len(calc.out.requests) = 2
    /\ Len(calc.out.articles) = 11

TooFewTerms(pr) ==
    pr.op = "upload" /\ pr.extraction_done /\ Len(pr.terms) < MinTerms

SuccessfulUploadStoresTerms(pr) ==
    (pr.op = "upload" /\ pr.pc = "done" /\ pr.result.success)
       => /\ pr.result.extracted_terms_count >= MinTerms
          /\ Len(pr.result.extracted_terms) = pr.result.extracted_terms_count
          /\ profiles[pr.user_id].extracted_search_terms
                 = pr.result.extracted_terms

ProfilesAsBeforeOrCreated(pr) ==
    \/ profiles = pr.pre.profiles
    \/ /\ pr.user_id \notin DOMAIN pr.pre.profiles
       /\ profiles = CreateDefaultProfile(pr.pre.profiles, pr.user_id)

\* C7 as stated: an upload whose extraction gives fewer than three usable
\* terms is rejected and writes neither the profile nor the index, and a
\* successful upload reports and stores at least three terms.
C7_AsStated ==
    \A p \in SeqProcs :
        /\ TooFewTerms(procs[p])
              => /\ procs[p].pc = "done"
                 /\ procs[p].result.success = FALSE
                 /\ profiles = procs[p].pre.profiles
                 /\ index = procs[p].pre.index
        /\ SuccessfulUploadStoresTerms(procs[p])

\* C7 amended: an upload whose extraction gives fewer than three usable
\* terms is rejected with the 'too few search terms' error and leaves the
\* index as it was and the profiles as they were, except that the profile
\* of a user who had none has been created with the default values; and a
\* successful upload reports and stores at least three terms.
C7_TooFewTermsRejected ==
    \A p \in SeqProcs :
        /\ TooFewTerms(procs[p])
              => /\ procs[p].pc = "done"
                 /\ procs[p].result.success = FALSE
                 /\ procs[p].result.error
                      = "Too few search terms extracted (minimum 3 required)"
                 /\ ProfilesAsBeforeOrCreated(procs[p])
                 /\ index = procs[p].pre.index
        /\ SuccessfulUploadStoresTerms(procs[p])

C7_Witness ==
    \E p \in SeqProcs :
        /\ TooFewTerms(procs[p])
        /\ Len(procs[p].terms) = MinTerms - 1
        /\ procs[p].pc = "done"
        /\ procs[p].user_id \notin DOMAIN procs[p].pre.profiles
        /\ procs[p].user_id \in DOMAIN profiles

TermKey(term) == Lower(Strip(term))

AllTerms(doc) == ExtractLegalEntities(doc.ner) \o GetLegalConcepts(doc.gem)

FirstPosition(all_terms, term) ==
    CHOOSE m \in 1..Len(all_terms) :
        /\ TermKey(all_terms[m]) = TermKey(term)
        /\ \A n \in 1..(m - 1) : TermKey(all_terms[n]) # TermKey(term)

\* C8: the term list of the extraction has no two entries that are equal
\* case-insensitively after trimming, every entry is longer than 2
\* characters, and the entries are in the order of their first occurrence,
\* the NER entities before the generative model's concepts.
C8_TermsUniqueLongOrdered ==
    (calc.fn = "run_extraction_pipeline" /\ calc.stage = "return")
       => LET ts == calc.out.extracted_search_terms
              all_terms == AllTerms(calc.in)
          IN /\ \A i, j \in 1..Len(ts) :
                    TermKey(ts[i]) = TermKey(ts[j]) => i = j
             /\ \A i \in 1..Len(ts) : Len(ts[i]) > 2
             /\ \A i \in 1..Len(ts) :
                    /\ \E m \in 1..Len(all_terms) : all_terms[m] = ts[i]
                    /\ ts[i] = all_terms[FirstPosition(all_terms, ts[i])]
             /\ \A i, j \in 1..Len(ts) :
                    i < j => FirstPosition(all_terms, ts[i])
                                < FirstPosition(all_terms, ts[j])
             /\ \A m \in 1..Len(all_terms) :
                    Len(all_terms[m]) > 2
                       => \E i \in 1..Len(ts) :
                              TermKey(ts[i]) = TermKey(all_terms[m])

C8_Witness ==
    /\ calc.fn = "run_extraction_pipeline"
    /\ calc.stage = "return"
    /\ calc.in.ner.ok
    /\ calc.in.ner.words = <<Abcd, Wxyz>>
    /\ SplitComma(calc.in.gem.text) = <<AbcdUpper, Ab>>
    /\ calc.out.extracted_search_terms = <<Abcd, Wxyz>>

Processed(stage) == stage # "pending"

\* C9: a failure in embedding, querying, judging or saving one article
\* never aborts the batch: the loop goes through the briefings in order,
\* each summarized article before the current one processed and none after
\* it, and the pipeline returns success = true with every article processed.
C9_FailureNeverAborts ==
    \A p \in SeqProcs :
        LET pr == procs[p]
        IN (pr.op = "analyze" /\ PipelineEntered(pr))
              => /\ pr.pc \in {"summarize", "briefing", "judge", "save",
                              "done"}
                 /\ pr.pc \in {"briefing", "judge", "save"}
                       => \A k \in 1..Len(pr.log) :
                              Processed(pr.log[k])
                                 <=> \/ pr.log[k] = "summarize_failed"
                                     \/ pr.i > Len(pr.briefings)
                                     \/ k < pr.briefings[pr.i].no
                 /\ pr.pc = "done"
                       => /\ pr.result.success
                          /\ \A k \in 1..Len(pr.log) : Processed(pr.log[k])
                          /\ Len(pr.log) = Len(pr.articles)
                          /\ pr.result.alerts_created
                                 = CountStage(pr.log, "saved")

C9_Witness ==
    \E p \in SeqProcs :
        /\ procs[p].op = "analyze"
        /\ procs[p].pc = "done"
        /\ Len(procs[p].log) = 2
        /\ procs[p].log[1] \in {"embed_failed", "save_failed"}
        /\ procs[p].log[2] = "saved"
        /\ procs[p].result.success

NonNoneCount(embeddings) ==
    Cardinality({k \in 1..Len(embeddings) : embeddings[k] # NoneEmb})

NewVectors(pr) == index \ pr.pre.index

\* C10: in an upload, chunks whose embedding is None are skipped and the
\* upload still succeeds: whenever at least one chunk has an embedding, the
\* finished upload returns success = true without an error, chunks_indexed
\* is the number of chunks with an embedding, and the index has gained that
\* many vectors of the user, none of them with a None embedding.
C10_NoneEmbeddingsSkipped ==
    \A p \in SeqProcs :
        LET pr == procs[p]
            n == NonNoneCount(pr.embeddings)
        IN (pr.op = "upload" /\ pr.pc = "done" /\ n >= 1)
              => /\ pr.result.success
                 /\ pr.result.error = ""
                 /\ pr.result.chunks_indexed = n
                 /\ Cardinality(NewVectors(pr)) = n
                 /\ \A v \in NewVectors(pr) :
                        v.values # NoneEmb /\ v.user_id = pr.user_id

\* C13: an upload over HTTP that is rejected because the upload limit is
\* reached is answered with status 400 and the envelope success = false
\* plus an error message.
C13_LimitReachedIs400 ==
    \A p \in SeqProcs :
        LET pr == procs[p]
        IN (/\ pr.op = "upload"
            /\ pr.via = "http"
            /\ pr.pc = "done"
            /\ PipelineEntered(pr)
            /\ LimitReachedBefore(pr))
              => /\ pr.status = 400
                 /\ pr.result.success = FALSE
                 /\ pr.result.error # ""

AlertScores(a) ==
    [k \in 1..Len(a.related_documents) |->
        a.related_documents[k].relevance_score]

DeleteStep(p, u) ==
    /\ AtRest(p)
    /\ procs'[p].op = "delete"
    /\ procs'[p].user_id = u
    /\ procs'[p].pre.index = index
    /\ procs'[p] # procs[p] \/ index' # index

UpsertStep(p) == procs[p].pc = "upsert" /\ procs'[p].pc # "upsert"

StoredIds(idx) == {v.id : v \in idx}

ChunksStayOrAreDeleted ==
    /\ \A v \in index :
         \/ v \in index'
         \/ \E p \in Procs : /\ DeleteStep(p, v.user_id)
                             /\ procs'[p].result.success
    /\ \A w \in index' \ index :
         /\ w.id \notin StoredIds(index)
         /\ \E p \in Procs : UpsertStep(p) /\ w.user_id = procs[p].user_id
    /\ \A p \in Procs :
         (UpsertStep(p) /\ procs'[p].pc = "update_count")
            => Cardinality(index')
                 = Cardinality(index) + procs'[p].result.chunks_indexed
    /\ \A p \in Procs, u \in Users :
         DeleteStep(p, u)
            => index' = IF procs'[p].result.success
                        THEN {v \in index : v.user_id # u} ELSE index

\* C15: a stored chunk is never changed or replaced: every step keeps each
\* stored vector as it is, an upsert writes only vectors whose ids are not
\* in the index, and a vector leaves the index only in a successful
\* delete_user_documents(u) with u its user_id, which removes exactly the
\* vectors of u.
C15_ChunksImmutable == [][ChunksStayOrAreDeleted]_vars

C15_Witness ==
    \E p \in Procs :
        /\ procs[p].op = "delete"
        /\ procs[p].result.success
        /\ \E v \in procs[p].pre.index : v.user_id = procs[p].user_id
        /\ \E v \in procs[p].pre.index : v.user_id # procs[p].user_id
        /\ index # {}
        /\ index = {v \in procs[p].pre.index : v.user_id # procs[p].user_id}
        /\ alerts # <<>>

\* The step is a call of mark_alert_as_read(u, alert_id) by p.
MarkStep(p, alert_id) ==
    /\ AtRest(p)
    /\ procs'[p].op = "mark_read"
    /\ procs'[p].i = alert_id
    /\ procs'[p] # procs[p] \/ alerts' # alerts

AlertStatusMoves ==
    /\ Len(alerts') >= Len(alerts)
    /\ \A k \in 1..Len(alerts) :
         /\ alerts'[k] = [alerts[k] EXCEPT !.status = alerts'[k].status]
         /\ alerts[k].status = "read" => alerts'[k].status = "read"
    /\ \A k \in (Len(alerts) + 1)..Len(alerts') : alerts'[k].status = "unread"
    /\ \A k \in 1..Len(alerts') : alerts'[k].status \in {"unread", "read"}
    /\ \A p \in Procs, k \in 1..Len(alerts) :
         (MarkStep(p, k) /\ procs'[p].result.success)
            => alerts'[k].status = "read"

\* C16: every alert is created 'unread'; an alert's status is always
\* 'unread' or 'read'; a successful mark_alert_as_read makes it 'read'; no
\* step makes a 'read' alert 'unread', changes anything else of an alert,
\* or removes an alert.
C16_AlertStatus == [][AlertStatusMoves]_vars

C16_Witness ==
    /\ Len(alerts) = 2
    /\ alerts[1].status = "read"
    /\ alerts[2].status = "unread"
    /\ procs["p2"].op = "mark_read"
    /\ procs["p2"].i = 1
    /\ procs["p2"].result.success
    /\ procs["p1"].pc = "done"

\* What get_profile_from_firestore gave to the request of pr, as far as the
\* request kept it.
ReturnedAsStored(pr, profile) ==
    /\ pr.profile = profile
    /\ (pr.op = "status" /\ pr.pc = "done")
          => /\ pr.result.is_none = FALSE
             /\ pr.result.upload_count = profile.doc_upload_count
             /\ pr.result.upload_limit = profile.doc_upload_limit
             /\ pr.result.extracted_terms_count
                    = Len(profile.extracted_search_terms)
    /\ (pr.op = "upload" /\ pr.pc = "extract")
          => pr.upload_count = profile.doc_upload_count
    /\ (pr.op = "search" /\ pr.pc = "scan")
          => pr.terms = profile.extracted_search_terms

\* C17: get_profile_from_firestore for a user without a profile creates the
\* profile with doc_upload_count 0, doc_upload_limit 1, no terms and no
\* monitored document, leaves the other profiles as they are, and returns
\* it; for a user who has a profile it returns the stored values and
\* writes nothing.
C17_ProfileCreatedLazily ==
    \A p \in SeqProcs :
        LET pr == procs[p]
            u == pr.user_id
        IN (pr.op \in {"upload", "search", "status"}
              /\ \/ pr.pc \in {"read_profile", "extract", "scan"}
                 \/ pr.op = "status" /\ pr.pc = "done"
                       /\ pr.profile # <<>>)
             => IF u \in DOMAIN pr.pre.profiles
                THEN /\ profiles = pr.pre.profiles
                     /\ ReturnedAsStored(pr, pr.pre.profiles[u])
                ELSE /\ DOMAIN profiles = DOMAIN pr.pre.profiles \cup {u}
                     /\ \A x \in DOMAIN pr.pre.profiles :
                            profiles[x] = pr.pre.profiles[x]
                     /\ profiles[u] = [monitored_doc_name |-> "None",
                                       doc_upload_limit |-> 1,
                                       doc_upload_count |-> 0,
                                       extracted_search_terms |-> <<>>]
                     /\ ReturnedAsStored(pr, profiles[u])

C17_Witness ==
    \E p \in SeqProcs :
        /\ procs[p].op = "upload"
        /\ procs[p].pc = "extract"
        /\ procs[p].user_id \notin DOMAIN procs[p].pre.profiles
        /\ procs[p].upload_count = 0
        /\ \E x \in DOMAIN procs[p].pre.profiles :
               /\ profiles[x].doc_upload_count = 1
               /\ profiles[x].extracted_search_terms # <<>>

\* The list tags of an output of format_response, in order.  The output has
\* no "<" but those of the tags the function writes.
TagName(chars) ==
    IF chars = <<"o", "l">> THEN "ol"
    ELSE IF chars = <<"/", "o", "l">> THEN "/ol"
    ELSE IF chars = <<"u", "l">> THEN "ul"
    ELSE IF chars = <<"/", "u", "l">> THEN "/ul"
    ELSE IF chars = <<"l", "i">> THEN "li"
    ELSE IF chars = <<"/", "l", "i">> THEN "/li"
    ELSE "other"

RECURSIVE ListTags(_, _)
ListTags(html, i) ==
    LET S == {j \in i..Len(html) : html[j] = "<"}
    IN IF S = {} THEN <<>>
       ELSE LET s == MinOf(S)
                e == MinOf({j \in s..(Len(html) + 1) :
                               j = Len(html) + 1 \/ html[j] = ">"})
                name == TagName(SubSeq(html, s + 1, e - 1))
            IN (IF name = "other" THEN <<>> ELSE <<name>>)
                  \o ListTags(html, e + 1)

\* Every list that is opened is closed, no list is opened while a list is
\* open, and every <li> is inside an open list.
RECURSIVE TagsBalanced(_, _, _)
TagsBalanced(tags, k, open) ==
    IF k > Len(tags) THEN open = "none"
    ELSE IF tags[k] \in {"ol", "ul"}
         THEN open = "none" /\ TagsBalanced(tags, k + 1, tags[k])
    ELSE IF tags[k] \in {"/ol", "/ul"}
         THEN tags[k] = <<"/ol", "/ul">>[IF open = "ol" THEN 1 ELSE 2]
                 /\ open # "none"
                 /\ TagsBalanced(tags, k + 1, "none")
    ELSE IF tags[k] = "li"
         THEN open # "none" /\ TagsBalanced(tags, k + 1, open)
    ELSE TagsBalanced(tags, k + 1, open)

\* The lines of the text given to format_response: numbered ("ol"), bullet
\* ("ul") or other.
LineKinds(text) ==
    LET lines == SplitLines(StripWhite(text))
    IN [k \in 1..Len(lines) |->
           IF OlMatch(StripWhite(lines[k])).matched THEN "ol"
           ELSE IF UlMatch(StripWhite(lines[k])).matched THEN "ul"
           ELSE "other"]

\* One list per maximal run of lines of a kind, one <li> per line.
RECURSIVE ExpectedListTags(_, _, _)
ExpectedListTags(kinds, k, open) ==
    LET close == IF open = "none" THEN <<>>
                 ELSE IF open = "ol" THEN <<"/ol">> ELSE <<"/ul">>
    IN IF k > Len(kinds) THEN close
       ELSE IF kinds[k] = "other"
            THEN close \o ExpectedListTags(kinds, k + 1, "none")
       ELSE (IF open = kinds[k] THEN <<>> ELSE close \o <<kinds[k]>>)
               \o <<"li", "/li">>
               \o ExpectedListTags(kinds, k + 1, kinds[k])

\* C18: in the output of format_response every <ol> and <ul> that is opened
\* is closed, the two kinds of list are never open together, every <li>
\* is inside an open list, and each maximal run of consecutive numbered
\* (bullet) lines of the text gives exactly one <ol> (<ul>) with one <li>
\* per line.
C18_ListsBalancedPerRun ==
    (calc.fn = "format_response" /\ calc.stage = "return")
       => /\ TagsBalanced(ListTags(calc.out, 1), 1, "none")
          /\ ListTags(calc.out, 1)
                = ExpectedListTags(LineKinds(calc.in.text), 1, "none")

\* The uploads of user u that have completed with success = true.
SuccessfulUploads(u) ==
    {p \in Procs : /\ procs[p].op = "upload"
                   /\ procs[p].pc = "done"
                   /\ procs[p].user_id = u
                   /\ procs[p].result.success}

\* C19: under any interleaving of concurrent uploads of one user, the
\* number of uploads that complete with success = true is at most the
\* user's doc_upload_limit.
C19_SuccessesWithinLimit ==
    \A u \in DOMAIN profiles :
        Cardinality(SuccessfulUploads(u)) <= profiles[u].doc_upload_limit

\* C20: in every reachable state, under any interleaving of requests, each
\* profile has 0 <= doc_upload_count <= doc_upload_limit.
C20_CountWithinLimit ==
    \A u \in DOMAIN profiles :
        /\ 0 <= profiles[u].doc_upload_count
        /\ profiles[u].doc_upload_count <= profiles[u].doc_upload_limit

C20_Witness ==
    \E u \in DOMAIN profiles :
        /\ profiles[u].doc_upload_count = profiles[u].doc_upload_limit
        /\ SuccessfulUploads(u) = Procs
        /\ \A p \in Procs : procs[p].result.chunks_indexed >= 1

\* A profile that records extracted terms or a count above 0 keeps them
\* different from the defaults of create_default_profile in this step.
ProfileKeepsProgress(u) ==
    /\ (profiles[u].extracted_search_terms # DefaultProfile.extracted_search_terms
          => profiles'[u].extracted_search_terms
                # DefaultProfile.extracted_search_terms)
    /\ (profiles[u].doc_upload_count > DefaultProfile.doc_upload_count
          => profiles'[u].doc_upload_count > DefaultProfile.doc_upload_count)

ExistingProfilesKeepProgress ==
    \A u \in DOMAIN profiles :
        u \in DOMAIN profiles' /\ ProfileKeepsProgress(u)

\* C21: under any interleaving of two requests of the same user, once a
\* profile records extracted_search_terms or a doc_upload_count above 0, no
\* later step (in particular no lazy creation of the default profile) resets
\* these fields to the defaults.
C21_ProfileNeverReset == [][ExistingProfilesKeepProgress]_vars

\* The profile of the user of request pr as it was when the request began;
\* a user without a profile counts as having the default one.
ProfileBefore(pr) ==
    IF pr.user_id \in DOMAIN pr.pre.profiles
    THEN pr.pre.profiles[pr.user_id]
    ELSE DefaultProfile

\* The profile of the user of request pr as it is now, read the same way.
ProfileAfter(pr) ==
    IF pr.user_id \in DOMAIN profiles THEN profiles[pr.user_id]
    ELSE DefaultProfile

UserChunks(idx, u) == {v \in idx : v.user_id = u}

FailedUpload(pr) ==
    /\ pr.op = "upload"
    /\ PipelineEntered(pr)
    /\ pr.pc = "done"
    /\ pr.result.success = FALSE

\* C22: whenever process_case_file_upload returns success = false, the
\* user's monitored_doc_name, extracted_search_terms and doc_upload_count
\* and the user's chunks in the vector index are the same as before the
\* call.
C22_FailedUploadChangesNothing ==
    \A p \in SeqProcs :
        LET pr == procs[p]
        IN FailedUpload(pr)
              => /\ ProfileAfter(pr).monitored_doc_name
                        = ProfileBefore(pr).monitored_doc_name
                 /\ ProfileAfter(pr).extracted_search_terms
                        = ProfileBefore(pr).extracted_search_terms
                 /\ ProfileAfter(pr).doc_upload_count
                        = ProfileBefore(pr).doc_upload_count
                 /\ UserChunks(index, pr.user_id)
                        = UserChunks(pr.pre.index, pr.user_id)

\* The position of a step of process_case_file_upload in the docstring's
\* order: limit check (the profile read), extraction, save terms, chunk and
\* embed, upsert, increment count.
StepRank(pc) ==
    CASE pc = "get_profile" -> 1
      [] pc = "create_profile" -> 2
      [] pc = "get_created_profile" -> 3
      [] pc = "read_profile" -> 4
      [] pc = "extract" -> 5
      [] pc = "save_terms" -> 6
      [] pc = "embed" -> 7
      [] pc = "upsert" -> 8
      [] pc = "update_count" -> 9
      [] OTHER -> 10

CountOf(ps, u) ==
    IF u \in DOMAIN ps THEN ps[u].doc_upload_count
    ELSE DefaultProfile.doc_upload_count

TermsOf(ps, u) ==
    IF u \in DOMAIN ps
    THEN <<ps[u].monitored_doc_name, ps[u].extracted_search_terms>>
    ELSE <<DefaultProfile.monitored_doc_name,
           DefaultProfile.extracted_search_terms>>

\* One step of a running upload of process p.
UploadStepInOrder(p) ==
    LET pr == procs[p]
        nx == procs'[p]
        u == pr.user_id
        count_written == CountOf(profiles', u) # CountOf(profiles, u)
    IN (pr.op = "upload" /\ pr.pc \notin {"idle", "done"} /\ nx # pr)
          => /\ \/ nx.pc = "done"
                \/ StepRank(nx.pc) = StepRank(pr.pc) + 1
                \/ pr.pc = "get_profile" /\ nx.pc = "read_profile"
             /\ TermsOf(profiles', u) # TermsOf(profiles, u)
                   => pr.pc = "save_terms" /\ nx.pc = "embed"
             /\ index' # index
                   => pr.pc = "upsert" /\ nx.pc = "update_count"
             /\ count_written
                   => /\ pr.pc = "update_count"
                      /\ nx.pc = "done"
                      /\ CountOf(profiles', u) = CountOf(profiles, u) + 1
                      /\ CountOf(profiles', u)
                            = ProfileBefore(pr).doc_upload_count + 1
                      /\ pr.result.chunks_indexed >= 1
                      /\ Cardinality(UserChunks(index, u))
                            = Cardinality(UserChunks(pr.pre.index, u))
                                 + pr.result.chunks_indexed
             /\ nx.pc = "done" => (nx.result.success <=> count_written)
             /\ nx.pc # "done" => nx.result.success = FALSE

UploadStepsInOrder == \A p \in SeqProcs : UploadStepInOrder(p)

\* C23: in one run of process_case_file_upload the steps happen in the order
\* limit check, extraction, save terms, chunk, embed, upsert, increment
\* count; doc_upload_count is increased by exactly 1, as the last write and
\* only after chunks were upserted, and the run returns success = true if
\* and only if that increment was written.
C23_UploadStepsInOrder == [][UploadStepsInOrder]_vars

C23_Witness ==
    \E p \in SeqProcs :
        /\ procs[p].op = "upload"
        /\ procs[p].pc = "done"
        /\ procs[p].result.success
        /\ procs[p].result.chunks_indexed >= 2
        /\ procs[p].user_id \in DOMAIN procs[p].pre.profiles
        /\ profiles[procs[p].user_id].doc_upload_count
              = procs[p].pre.profiles[procs[p].user_id].doc_upload_count + 1
        /\ profiles[procs[p].user_id].extracted_search_terms
              = procs[p].result.extracted_terms

\* A mark_alert_as_read(user_id, alert_id) step leaves the alerts of the
\* other users as they are.
MarkLeavesOthersAlerts ==
    \A p \in Procs, alert_id \in 1..MaxAlertId :
        MarkStep(p, alert_id)
           => \A k \in 1..Len(alerts) :
                 alerts[k].user_id # procs'[p].user_id
                    => alerts'[k] = alerts[k]

\* C24: mark_alert_as_read(user_id, alert_id) changes the status only of an
\* alert whose stored user_id equals the given user_id; alerts that belong
\* to other users are left unchanged.
C24_MarkOnlyOwnAlerts == [][MarkLeavesOthersAlerts]_vars

\* What query_pinecone returns for the stored index: at most top_k matches,
\* each with a score of at least the threshold, and none when the query
\* raised.
QueryWithinBounds(u, q, top_k, ok) ==
    LET matches == QueryPinecone(index, u, <<q>>, top_k, ScoreThreshold, ok)
    IN /\ Len(matches) <= top_k
       /\ \A k \in 1..Len(matches) : matches[k].score >= ScoreThreshold
       /\ ~ok => matches = <<>>

AlertHasRelevantDocuments(a) ==
    /\ Len(a.related_documents) >= 1
    /\ Len(a.related_documents) <= TopK
    /\ \A k \in 1..Len(a.related_documents) :
           a.related_documents[k].relevance_score >= ScoreThreshold

\* The iteration of an article whose query gave no matches saved no alert.
NoMatchesNoAlert(pr) ==
    (pr.op = "analyze" /\ PipelineEntered(pr) /\ pr.last # <<>>
        /\ pr.last.stage = "no_matches")
       => /\ pr.last.matches = <<>>
          /\ pr.last.alert_id = 0
          /\ \A k \in 1..Len(alerts) :
                 alerts[k].title # pr.articles[pr.last.no].title

\* C25: every match returned by query_pinecone has score >= score_threshold
\* and there are at most top_k of them; every alert saved by the analysis
\* pipeline has between 1 and 3 related_documents, each with
\* relevance_score >= 0.7; a failed index query yields no matches and
\* therefore no alert.
C25_MatchesAboveThreshold ==
    /\ \A u \in Users, q \in Vecs, top_k \in 1..TopK, ok \in BOOLEAN :
           QueryWithinBounds(u, q, top_k, ok)
    /\ \A k \in 1..Len(alerts) : AlertHasRelevantDocuments(alerts[k])
    /\ \A p \in SeqProcs : NoMatchesNoAlert(procs[p])

C25_Witness ==
    \E p \in SeqProcs :
        /\ procs[p].op = "analyze"
        /\ procs[p].pc = "done"
        /\ Len(procs[p].log) = 2
        /\ procs[p].log[1] = "saved"
        /\ procs[p].log[2] = "no_matches"
        /\ Len(alerts) = 1
        /\ Len(alerts[1].related_documents) = 2
        /\ Cardinality(UserChunks(index, procs[p].user_id)) = 3

\* The ids of the alerts a run reports.
ReportedIds(res) == {res.alerts[e].alert_id : e \in 1..Len(res.alerts)}

\* The result of a finished analysis that returned success = true.
AnalysisCountsAgree(pr) ==
    LET res == pr.result
    IN /\ res.alerts_created = Len(res.alerts)
       /\ Cardinality(ReportedIds(res)) = Len(res.alerts)
       /\ \A e \in 1..Len(res.alerts) :
              /\ res.alerts[e].alert_id \in 1..Len(alerts)
              /\ alerts[res.alerts[e].alert_id].user_id = pr.user_id
              /\ alerts[res.alerts[e].alert_id].title = res.alerts[e].title
       /\ res.alerts_created <= res.articles_analyzed
       /\ res.articles_analyzed <= Len(pr.articles)
       /\ res.articles_analyzed
             = Len(pr.articles) - CountStage(pr.log, "summarize_failed")

SuccessfulAnalyses ==
    {p \in Procs : /\ procs[p].op = "analyze"
                   /\ procs[p].pc = "done"
                   /\ procs[p].result.success}

\* C26: for every result of run_article_analysis_pipeline with success =
\* true, alerts_created equals the length of alerts and the number of alerts
\* persisted by that run (each reported id is a stored alert of the user,
\* no id is reported twice or by two runs, and when every run has returned
\* every stored alert is reported), and alerts_created <= articles_analyzed
\* <= number of articles submitted, where articles_analyzed counts the
\* articles that were summarised successfully.
C26_AnalysisCounts ==
    /\ \A p \in SuccessfulAnalyses : AnalysisCountsAgree(procs[p])
    /\ \A p, q \in SuccessfulAnalyses :
           p # q => ReportedIds(procs[p].result)
                       \cap ReportedIds(procs[q].result) = {}
    /\ (\A p \in Procs : procs[p].pc \in {"idle", "done"})
          => 1..Len(alerts)
                = UNION {ReportedIds(procs[p].result) :
                            p \in SuccessfulAnalyses}

C26_Witness ==
    /\ SuccessfulAnalyses = Procs
    /\ procs["p1"].result.alerts_created = 1
    /\ Len(procs["p2"].articles) = 2
    /\ procs["p2"].result.articles_analyzed = 1
    /\ procs["p2"].result.alerts_created = 1
    /\ Len(alerts) = 2

\* The embedding batch_get_embeddings owes to position i of its input.
EmbeddingOwed(texts, env, i) ==
    IF texts[i].blank \/ (~env.batch_ok /\ i \in env.item_fail)
    THEN NoneEmb
    ELSE <<texts[i].vec>>

\* C27: batch_get_embeddings returns a list of the same length as its input
\* in which position i holds the embedding of texts[i], or None when
\* texts[i] is empty or could not be embedded, on the batch path and on the
\* one-by-one fallback path; so the pairs the upload pipeline keeps each
\* hold a chunk with its own embedding.
C27_EmbeddingsAligned ==
    (calc.fn = "batch_get_embeddings" /\ calc.stage = "return")
       => LET texts == calc.in.texts
              embeddings == calc.out.embeddings
              valid_pairs == calc.out.valid_pairs
          IN /\ Len(embeddings) = Len(texts)
             /\ \A i \in 1..Len(texts) :
                    embeddings[i] = EmbeddingOwed(texts, calc.in.env, i)
             /\ Len(valid_pairs) = NonNoneCount(embeddings)
             /\ \A k \in 1..Len(valid_pairs) :
                    /\ ~valid_pairs[k].chunk.blank
                    /\ valid_pairs[k].embedding
                           = <<valid_pairs[k].chunk.vec>>

C27_Witness ==
    /\ calc.fn = "batch_get_embeddings"
    /\ calc.stage = "return"
    /\ calc.in.env.batch_ok
    /\ Len(calc.in.texts) = 3
    /\ calc.in.texts[1].blank
    /\ calc.out.embeddings = <<NoneEmb, <<1>>, <<2>>>>
    /\ Len(calc.out.valid_pairs) = 2

NoCaseFileError == "No case file uploaded. Please upload a case file first."

\* One step of a running search of process p.  The search API is called by
\* the step taken at "scan" and by no other.
SearchStepFrame(p) ==
    LET pr == procs[p]
        nx == procs'[p]
        u == pr.user_id
    IN (pr.op = "search" /\ pr.pc \notin {"idle", "done"} /\ nx # pr)
          => /\ index' = index
             /\ alerts' = alerts
             /\ u \in DOMAIN profiles => profiles' = profiles
             /\ \A x \in DOMAIN profiles : x # u => profiles'[x] = profiles[x]
             /\ (pr.pc = "read_profile"
                    /\ pr.profile.extracted_search_terms = <<>>)
                   => /\ nx.pc = "done"
                      /\ nx.result.success = FALSE
                      /\ nx.result.error = NoCaseFileError
                      /\ nx.result.articles = <<>>
                      /\ pr.via = "http" => nx.status = 400
             /\ nx.pc = "scan"
                   => /\ pr.profile.extracted_search_terms # <<>>
                      /\ pr.profile = profiles[u]

SearchStepsFrame == \A p \in SeqProcs : SearchStepFrame(p)

\* C28: run_article_search_pipeline changes nothing in an existing profile,
\* creates no alert and no chunk; when the profile has no extracted terms it
\* returns success = false with the 'No case file uploaded' error without
\* calling the search API.
C28_SearchChangesNothing == [][SearchStepsFrame]_vars

C28_Witness ==
    \E p \in SeqProcs :
        /\ procs[p].op = "search"
        /\ procs[p].pc = "done"
        /\ procs[p].user_id \in DOMAIN procs[p].pre.profiles
        /\ procs[p].pre.profiles[procs[p].user_id].doc_upload_count = 0
        /\ procs[p].pre.profiles[procs[p].user_id].extracted_search_terms
              = <<>>
        /\ procs[p].pre.index # {}
        /\ Snapshot = procs[p].pre
        /\ procs[p].result.error = NoCaseFileError
        /\ procs[p].status = 400

NoUploadSucceeded == \A p \in Procs : ~procs[p].upload_succeeded

\* The step in which the request of process p is answered.
AnswerStep(p) == procs'[p] # procs[p] /\ procs'[p].pc = "done"

DocAnswersAsStated(p) ==
    LET nx == procs'[p]
    IN AnswerStep(p)
          => /\ (nx.op = "explain" /\ NoUploadSucceeded)
                   => /\ nx.status = 404
                      /\ nx.body = [kind |-> "error", text |-> NoDocumentFound]
             /\ (nx.op = "ask" /\ NoUploadSucceeded /\ nx.body.kind = "answer")
                   => nx.body.text = NoDocumentFound
             /\ (nx.op = "upload" /\ ~nx.has_pdfs)
                   => /\ nx.status = 400
                      /\ files' = files
             /\ (nx.op = "upload" /\ nx.has_pdfs /\ nx.readable
                    /\ nx.text = <<>>)
                   => /\ nx.status = 400
                      /\ files' = files
                      /\ procs[p].pc \in {"idle", "done"}

DocAnswers == \A p \in Procs : DocAnswersAsStated(p)

\* C29: in the document Q&A service, in every state where no upload has
\* succeeded /explain answers 404 and an answer of /ask is the 'No document
\* found' text rather than a generated answer; an /upload with no file
\* answers 400, and an /upload whose PDFs contain no extractable text
\* answers 400 in the step in which it began, leaving the stored vector
\* index and the stored text unchanged.
C29_NoDocumentAnswers == [][DocAnswers]_vars

====
